---- MODULE Spec2Model ----
(***************************************************************************)
(* Model of the clixon controller's per-device connection state machine    *)
(* (controller_device_state.c) and of the backend RPCs that drive it       *)
(* (controller_rpc.c).                                                     *)
(*                                                                         *)
(* Every C function is an operator over a "world" record w that bundles    *)
(* the device handles and the process-wide state the function can touch:   *)
(*   w.devs     the device handles (struct controller_device_handle)       *)
(*   w.framing  the clixon option "netconf-framing" (one per process)      *)
(*   w.files    the schema files present in YANG_SCHEMA_MOUNT_DIR          *)
(*   w.exited   a callback returned -1 and the event loop has ended        *)
(*   w.running, w.candidate                                                *)
(*              devices/device/root of the datastores of that name         *)
(*   w.transactions  the controller transactions created so far            *)
(*   w.notifications the controller-transaction notifications sent so far  *)
(* An action of the model is one event-loop callback or one backend RPC,   *)
(* run to completion.  What the environment decides during a callback      *)
(* (result of the YANG parser, of the datastore) is an input record env    *)
(* of the action.                                                          *)
(***************************************************************************)
EXTENDS Naturals, Integers, Sequences, FiniteSets, TLC

VARIABLES devs, netconf_framing, files, exited, running, candidate,
          transactions, notifications, cli

vars == <<devs, netconf_framing, files, exited, running, candidate,
          transactions, notifications, cli>>

-----------------------------------------------------------------------------
(* Bounds of the model *)

\* message-ids handed out per device handle (requests are sent only below it)
MaxMsgId == 3
\* slices of unfinished frames that the reassembly buffer may hold
MaxBuf == 1
\* schema entries in one list-schemas reply
MaxCatalog == 2
\* transactions that transaction-new creates
MaxTid == 3
\* outcomes that the devices of one transaction report
MaxReports == 4

\* device handles that can be allocated, in allocation order
Handles == {1, 2}
\* device names of the configuration
Names == {"d1"}
\* YANG modules (name@revision) a device can advertise
Modules == {"ma", "mb"}

-----------------------------------------------------------------------------
(* Values *)

\* enum conn_state
ConnStates ==
    {"CS_CLOSED", "CS_CONNECTING", "CS_SCHEMA_LIST", "CS_SCHEMA_ONE",
     "CS_DEVICE_SYNC", "CS_OPEN", "CS_PUSH_EDIT", "CS_WRESP"}

\* the states in which the controller waits for the peer
TransientStates ==
    {"CS_CONNECTING", "CS_SCHEMA_LIST", "CS_SCHEMA_ONE", "CS_DEVICE_SYNC",
     "CS_PUSH_EDIT"}

\* static const map_str2int csmap[]: CS_PUSH_EDIT has no entry
csmap ==
    [s \in ConnStates \ {"CS_PUSH_EDIT"} |->
        CASE s = "CS_CLOSED"      -> "CLOSED"
          [] s = "CS_CONNECTING"  -> "CONNECTING"
          [] s = "CS_SCHEMA_LIST" -> "SCHEMA_LIST"
          [] s = "CS_SCHEMA_ONE"  -> "SCHEMA_ONE"
          [] s = "CS_DEVICE_SYNC" -> "DEVICE-SYNC"
          [] s = "CS_OPEN"        -> "OPEN"
          [] s = "CS_WRESP"       -> "WRESP"]

\* clicon_int2str over csmap: NULL (printed "(null)") when the state is not mapped
device_state_int2str(state) ==
    IF state \in DOMAIN csmap THEN csmap[state] ELSE "(null)"

\* capability URIs the state machine looks for
BASE10 == "urn:ietf:params:netconf:base:1.0"
BASE11 == "urn:ietf:params:netconf:base:1.1"
MONITORING == "urn:ietf:params:xml:ns:yang:ietf-netconf-monitoring"
Capabilities == {BASE10, BASE11, MONITORING}

\* values of the option "netconf-framing"; FramingUnset is the option not yet set
NETCONF_SSH_EOM == 0
NETCONF_SSH_CHUNKED == 1
FramingUnset == -1

\* log messages are sequences of strings; the empty sequence is a NULL logmsg
LogNull == <<>>
LogUnexpected(rpcname, state) ==
    <<"Unexpected msg", rpcname, "in state", device_state_int2str(state)>>
LogTimeout == <<"Timeout waiting for remote peer">>
LogEof == <<"Remote socket endpoint closed">>
LogInvalidFrame == <<"Invalid frame">>
LogNamespace == <<"No appropriate namespace associated with">>
LogNoBase == <<"No base netconf capability found">>
LogNoSchemaMethod == <<"No method to get schemas">>
LogNoSchemas == <<"No schemas returned">>
LogNoYangBody == <<"Invalid get-schema, no YANG body">>
LogYangParse == <<"YANG parse error">>
LogNoYangs == <<"No YANGs available">>
LogBindFailed == <<"YANG binding failed at mountpoint:">>
LogCommitFailed == <<"Failed to commit">>
LogConfiguredDown == <<"Configured down">>

\* a yang-library of the handle: LibNull is the NULL pointer, otherwise the
\* sequence of the module-set's modules
LibNull == <<"NULL">>
LibModules(lib) == IF lib = LibNull THEN <<>> ELSE lib

\* the yspec of a handle: no yspec, a fresh one (yspec_new), one with the device's
\* modules parsed into it, or a pointer to a yspec that has been freed
YspecNull == [st |-> "NULL", mods |-> {}]
YspecNew == [st |-> "new", mods |-> {}]

\* a device handle that has not been allocated
NoHandle ==
    [alloc |-> FALSE, name |-> "", conn_state |-> "CS_CLOSED", socket |-> FALSE,
     fd_reg |-> FALSE, timers |-> 0, logmsg |-> LogNull,
     yspec |-> YspecNull, yang_lib |-> LibNull, nr_schemas |-> 0,
     schema_name |-> "", msg_id |-> 1, frame_buf |-> <<>>, sync_xml |-> "NULL",
     sent |-> <<>>, inflight |-> 0]

World == [devs |-> devs, framing |-> netconf_framing, files |-> files,
          exited |-> exited, running |-> running, candidate |-> candidate,
          transactions |-> transactions, notifications |-> notifications]

\* the event loop ends when a callback returns -1
Fatal(w) == [w EXCEPT !.exited = TRUE]

SetDev(w, dh, d) == [w EXCEPT !.devs[dh] = d]

\* the result of a C function: the world it leaves and its return value
R(w, ret) == [w |-> w, ret |-> ret]

-----------------------------------------------------------------------------
(* Messages of the peer *)

\* one <schema> entry of a list-schemas reply (RFC 6022): its identifier@version,
\* its format and whether one of its locations is NETCONF
SchemaEntries ==
    {[identifier |-> m, format |-> "yang", netconf |-> TRUE] : m \in Modules}
    \cup {[identifier |-> "ma", format |-> "yang", netconf |-> FALSE],
          [identifier |-> "ma", format |-> "yin", netconf |-> TRUE]}

RECURSIVE SeqsUpTo(_, _)
SeqsUpTo(S, n) ==
    IF n = 0 THEN {<<>>}
    ELSE LET shorter == SeqsUpTo(S, n - 1)
         IN  shorter \cup {Append(q, e) : q \in shorter, e \in S}

Catalogs == SeqsUpTo(SchemaEntries, MaxCatalog)

\* message-id values a peer echoes to a handle: the id of the handle's last
\* request, or one that no request of the handle carries
EchoIds(d) == {d.msg_id - 1, 0}

MsgBase ==
    [name |-> "", ns_ok |-> TRUE, has_caps |-> FALSE, caps |-> {}, mid |-> 0,
     body |-> "none", catalog |-> <<>>]

\* <hello>: with or without a <capabilities> element, in or out of the base namespace
HelloMsgs ==
    {[MsgBase EXCEPT !.name = "hello", !.has_caps = TRUE, !.caps = c] :
        c \in SUBSET Capabilities}
    \cup {[MsgBase EXCEPT !.name = "hello"]}
    \cup {[MsgBase EXCEPT !.name = "hello", !.ns_ok = FALSE, !.has_caps = TRUE,
                          !.caps = Capabilities]}

\* <rpc-reply message-id=mid>: what it carries is
\*   "none"          no <data> element (<ok/>, <rpc-error>)
\*   "schemas"       <data><netconf-state><schemas> with a catalog
\*   "text"          <data> with a character body (a get-schema answer)
\*   "config"        <data> with elements that bind to the device's YANG
\*   "config_nobind" <data> with elements that do not bind
\* The catalog of a "schemas" reply is read in CS_SCHEMA_LIST only: the peer
\* sends any catalog there and the empty one elsewhere.
ReplyMsgs(d) ==
    {[MsgBase EXCEPT !.name = "rpc-reply", !.mid = i, !.body = b] :
        i \in EchoIds(d), b \in {"none", "text", "config", "config_nobind"}}
    \cup {[MsgBase EXCEPT !.name = "rpc-reply", !.mid = i, !.body = "schemas",
                          !.catalog = c] :
             i \in EchoIds(d),
             c \in IF d.conn_state = "CS_SCHEMA_LIST" THEN Catalogs ELSE {<<>>}}
    \cup {[MsgBase EXCEPT !.name = "rpc-reply", !.ns_ok = FALSE, !.mid = i,
                          !.body = "text"] : i \in EchoIds(d)}

\* any other top-level element
OtherMsgs == {[MsgBase EXCEPT !.name = "notification"]}

\* the messages a peer can send to a handle.  The capabilities of a <hello> are
\* read in CS_CONNECTING only: the peer sends any <hello> there and one elsewhere.
Msgs(d) ==
    (IF d.conn_state = "CS_CONNECTING"
     THEN HelloMsgs
     ELSE {[MsgBase EXCEPT !.name = "hello", !.has_caps = TRUE,
                           !.caps = Capabilities]})
    \cup ReplyMsgs(d) \cup OtherMsgs

\* what the environment decides while a callback runs: whether the YANG parser
\* accepts the modules, whether xmldb_put and candidate_commit accept the data
EnvOk ==
    [parse_ok |-> TRUE, put_ok |-> TRUE, commit_ok |-> TRUE]
Envs ==
    {EnvOk,
     [EnvOk EXCEPT !.parse_ok = FALSE],
     [EnvOk EXCEPT !.put_ok = FALSE],
     [EnvOk EXCEPT !.commit_ok = FALSE]}

\* the decisions a callback can meet in a state: the parser runs when the schemas
\* are complete (CS_SCHEMA_LIST, CS_SCHEMA_ONE), the datastore is written when a
\* configuration arrives (CS_DEVICE_SYNC)
EnvsOf(conn_state) ==
    CASE conn_state \in {"CS_SCHEMA_LIST", "CS_SCHEMA_ONE"} ->
            {e \in Envs : e.put_ok /\ e.commit_ok}
      [] conn_state = "CS_DEVICE_SYNC" -> {e \in Envs : e.parse_ok}
      [] OTHER -> {EnvOk}

-----------------------------------------------------------------------------
(* controller_device_state.c *)

\* clixon_event_unreg_timeout: removes one registered timeout of the handle, if any
device_state_timeout_unregister(d) ==
    [d EXCEPT !.timers = IF @ > 0 THEN @ - 1 ELSE 0]

\* clixon_event_reg_timeout: adds a timeout of the handle
device_state_timeout_register(d) ==
    [d EXCEPT !.timers = @ + 1]

\* variant: the restart registers a timeout without cancelling the previous one
device_state_timeout_restart_nocancel(d) ==
    device_state_timeout_register(d)

device_state_timeout_restart(d) ==
    device_state_timeout_register(device_state_timeout_unregister(d))

\* variant: the log message is set to NULL, as for a NULL format
device_close_connection_nolog(w, dh, logmsg) ==
    LET d0 == w.devs[dh]
        d1 == device_state_timeout_unregister([d0 EXCEPT !.fd_reg = FALSE])
    IN  SetDev(w, dh, [d1 EXCEPT !.socket = FALSE,
                                 !.yang_lib = LibNull,
                                 !.conn_state = "CS_CLOSED",
                                 !.logmsg = LogNull,
                                 !.inflight = 0])

\* device_close_connection: unregister the input callback and one timeout, close
\* the socket, drop the yang-library, set CLOSED and the log message.
\* (inflight is history: the requests of a closed session are no longer awaited)
device_close_connection(w, dh, logmsg) ==
    LET d0 == w.devs[dh]
        d1 == device_state_timeout_unregister([d0 EXCEPT !.fd_reg = FALSE])
    IN  SetDev(w, dh, [d1 EXCEPT !.socket = FALSE,
                                 !.yang_lib = LibNull,
                                 !.conn_state = "CS_CLOSED",
                                 !.logmsg = logmsg,
                                 !.inflight = 0])

\* device_handle_msg_id_getinc: the handle's counter, post-incremented
device_handle_msg_id_getinc(d) ==
    [d EXCEPT !.msg_id = @ + 1]

\* clicon_msg_send1 of a request on the handle's socket.  The message-id has been
\* taken before the write.  On a socket that device_close_connection has closed
\* the write fails (-1).
SendRequest(w, dh, op, arg) ==
    LET d0 == w.devs[dh]
        id == d0.msg_id
        d1 == device_handle_msg_id_getinc(d0)
    IN  IF d0.socket
        THEN R(SetDev(w, dh, [d1 EXCEPT
                 !.sent = Append(@, [op |-> op, id |-> id, arg |-> arg]),
                 !.inflight = @ + 1]), 0)
        ELSE R(SetDev(w, dh, d1), -1)

\* device_send_sync: <get-config><source><running/>
device_send_sync(w, dh) ==
    SendRequest(w, dh, "get-config", "")

\* device_get_schema_sendit: <get-schema> of one module
device_get_schema_sendit(w, dh, identifier) ==
    SendRequest(w, dh, "get-schema", identifier)

\* device_send_get_schema_list: <get> of netconf-state/schemas
device_send_get_schema_list(w, dh) ==
    SendRequest(w, dh, "get", "")

\* yang_find_module_by_name_revision on the handle's yspec
yang_find_module_by_name_revision(yspec, m) ==
    m \in yspec.mods

\* yang_file_find_match: the module's file is in the schema cache
yang_file_find_match(w, m) ==
    m \in w.files

\* device_send_get_schema_next: from index nr on, skip the modules that are loaded
\* or cached and request the first that is neither.
\* Result: [w, ret, nr] with ret 1 (sent, nr updated), 0 (nothing left), -1 (error)
RECURSIVE get_schema_next_loop(_, _, _, _)
get_schema_next_loop(w, dh, i, nr) ==
    LET vec == LibModules(w.devs[dh].yang_lib)
    IN  IF i >= Len(vec)
        THEN [w |-> w, ret |-> 0, nr |-> nr]
        ELSE IF i # nr
        THEN get_schema_next_loop(w, dh, i + 1, nr)
        ELSE LET name == vec[i + 1]
             IN  IF yang_find_module_by_name_revision(w.devs[dh].yspec, name)
                 THEN get_schema_next_loop(w, dh, i + 1, nr + 1)
                 ELSE IF yang_file_find_match(w, name)
                 THEN get_schema_next_loop(w, dh, i + 1, nr + 1)
                 ELSE LET r == device_get_schema_sendit(w, dh, name)
                      IN  IF r.ret < 0
                          THEN [w |-> r.w, ret |-> -1, nr |-> nr + 1]
                          ELSE [w |-> SetDev(r.w, dh,
                                        [r.w.devs[dh] EXCEPT !.schema_name = name]),
                                ret |-> 1, nr |-> nr + 1]

\* variant: the index of the caller is not updated
device_send_get_schema_next_stale(w, dh, nr) ==
    IF w.devs[dh].yspec.st = "NULL"
    THEN [w |-> w, ret |-> -1, nr |-> nr]
    ELSE [get_schema_next_loop(w, dh, 0, nr) EXCEPT !.nr = nr]

device_send_get_schema_next(w, dh, nr) ==
    IF w.devs[dh].yspec.st = "NULL"
    THEN [w |-> w, ret |-> -1, nr |-> nr]
    ELSE get_schema_next_loop(w, dh, 0, nr)

\* clixon_client_hello(s, version): the controller's <hello>, which advertises
\* base:1.1 when version is 1 and base:1.0 otherwise
clixon_client_hello(w, dh, version) ==
    SetDev(w, dh, [w.devs[dh] EXCEPT
        !.sent = Append(@, [op |-> "hello", id |-> 0,
                            arg |-> IF version = 1 THEN BASE11 ELSE BASE10])])

\* the NETCONF version the peer's capabilities select: 1, 0, or -1 for none
hello_version(caps) ==
    IF BASE11 \in caps THEN 1
    ELSE IF BASE10 \in caps THEN 0
    ELSE -1

\* the version that is used: "version = 0; /* XXX hardcoded to 0 */"
hello_version_used(detected) == NETCONF_SSH_EOM

\* variant: the framing option is set from the peer's version before the version
\* is overridden
device_state_recv_hello_detected(w, dh, msg) ==
    LET conn_state == w.devs[dh].conn_state
    IN  IF msg.name # "hello"
        THEN R(device_close_connection(w, dh, LogUnexpected(msg.name, conn_state)), 0)
        ELSE IF ~msg.ns_ok
        THEN R(device_close_connection(w, dh, LogNamespace), 0)
        ELSE IF ~msg.has_caps
        THEN R(w, -1)
        ELSE LET detected == hello_version(msg.caps)
             IN  IF detected < 0
                 THEN R(device_close_connection(w, dh, LogNoBase), 0)
                 ELSE LET version == hello_version_used(detected)
                          w1 == [w EXCEPT !.framing = detected]
                      IN  R(clixon_client_hello(w1, dh, version), 1)

\* variant: a <hello> without a base capability is taken as version 0
device_state_recv_hello_nobase(w, dh, msg) ==
    LET conn_state == w.devs[dh].conn_state
    IN  IF msg.name # "hello"
        THEN R(device_close_connection(w, dh, LogUnexpected(msg.name, conn_state)), 0)
        ELSE IF ~msg.ns_ok
        THEN R(device_close_connection(w, dh, LogNamespace), 0)
        ELSE IF ~msg.has_caps
        THEN R(w, -1)
        ELSE LET version == hello_version_used(hello_version(msg.caps))
                 w1 == [w EXCEPT !.framing = version]
             IN  R(clixon_client_hello(w1, dh, version), 1)

\* device_state_recv_hello: 1 OK, 0 closed, -1 error.
\* The capabilities it saves in the handle are read in the same callback only
\* (case CS_CONNECTING), here from the message.
device_state_recv_hello(w, dh, msg) ==
    LET conn_state == w.devs[dh].conn_state
    IN  IF msg.name # "hello"
        THEN R(device_close_connection(w, dh, LogUnexpected(msg.name, conn_state)), 0)
        ELSE IF ~msg.ns_ok
        THEN R(device_close_connection(w, dh, LogNamespace), 0)
        ELSE IF ~msg.has_caps
        THEN R(w, -1)
        ELSE LET detected == hello_version(msg.caps)
             IN  IF detected < 0
                 THEN R(device_close_connection(w, dh, LogNoBase), 0)
                 ELSE LET version == hello_version_used(detected)
                          w1 == [w EXCEPT !.framing = version]
                      IN  R(clixon_client_hello(w1, dh, version), 1)

\* variant: the location of an entry is not looked at
RECURSIVE schema_list2yang_library_anylocation(_)
schema_list2yang_library_anylocation(catalog) ==
    IF catalog = <<>> THEN <<>>
    ELSE LET x == Head(catalog)
             rest == schema_list2yang_library_anylocation(Tail(catalog))
         IN  IF x.format # "yang" THEN rest
             ELSE <<x.identifier>> \o rest

\* schema_list2yang_library: the module-set of the catalog's entries that are in
\* yang format and have a NETCONF location
RECURSIVE schema_list2yang_library(_)
schema_list2yang_library(catalog) ==
    IF catalog = <<>> THEN <<>>
    ELSE LET x == Head(catalog)
             rest == schema_list2yang_library(Tail(catalog))
         IN  IF x.format # "yang" THEN rest
             ELSE IF ~x.netconf THEN rest
             ELSE <<x.identifier>> \o rest

\* device_state_recv_schema_list: 1 OK, 0 closed
device_state_recv_schema_list(w, dh, msg) ==
    LET conn_state == w.devs[dh].conn_state
    IN  IF msg.name # "rpc-reply"
        THEN R(device_close_connection(w, dh, LogUnexpected(msg.name, conn_state)), 0)
        ELSE IF ~msg.ns_ok
        THEN R(device_close_connection(w, dh, LogNamespace), 0)
        ELSE IF msg.body # "schemas"
        THEN R(device_close_connection(w, dh, LogNoSchemas), 0)
        ELSE R(SetDev(w, dh, [w.devs[dh] EXCEPT
                   !.yang_lib = schema_list2yang_library(msg.catalog)]), 1)

\* device_state_recv_get_schema: write the module body to the schema cache under
\* the name and revision of the last request.  1 OK, 0 closed
device_state_recv_get_schema(w, dh, msg) ==
    LET conn_state == w.devs[dh].conn_state
    IN  IF msg.name # "rpc-reply"
        THEN R(device_close_connection(w, dh, LogUnexpected(msg.name, conn_state)), 0)
        ELSE IF ~msg.ns_ok
        THEN R(device_close_connection(w, dh, LogNamespace), 0)
        ELSE IF msg.body # "text"
        THEN R(device_close_connection(w, dh, LogNoYangBody), 0)
        ELSE R([w EXCEPT !.files = @ \cup {w.devs[dh].schema_name}], 1)

\* device_state_schemas_ready: parse the yang-library's modules into the handle's
\* yspec (yang_lib2yspec needs every module's file and a parser that accepts them;
\* without a module there is nothing it can reject) and mount it.
\* 1 OK, 0 YANG parse error, -1 error.
\* On 0 the yspec is freed (done: if (yspec1) ys_free(yspec1)) and the handle
\* keeps the pointer.
device_state_schemas_ready(w, dh, env) ==
    LET d == w.devs[dh]
        mods == {LibModules(d.yang_lib)[i] : i \in 1..Len(LibModules(d.yang_lib))}
    IN  IF d.yspec.st = "NULL"
        THEN R(w, -1)
        ELSE IF mods \subseteq w.files /\ (mods = {} \/ env.parse_ok)
        THEN R(SetDev(w, dh, [d EXCEPT !.yspec =
                   [st |-> "parsed", mods |-> d.yspec.mods \cup mods]]), 1)
        ELSE R(SetDev(w, dh, [d EXCEPT !.yspec = [st |-> "freed", mods |-> {}]]), 0)

\* xmldb_put(h, "candidate", OP_NONE, xt, ...) with operation replace on the
\* mount-point: the device's root in candidate becomes the pulled tree
xmldb_put(w, xt) == [w EXCEPT !.candidate = xt]

\* candidate_commit: running becomes candidate
candidate_commit(w) == [w EXCEPT !.running = w.candidate]

\* xmldb_copy(h, "running", "candidate"): candidate is discarded
xmldb_copy(w) == [w EXCEPT !.candidate = w.running]

\* variant: the handle's sync_xml is replaced by the pulled tree once it is bound,
\* before it is put and committed
device_state_recv_config_earlyswap(w, dh, msg, env) ==
    LET conn_state == w.devs[dh].conn_state
    IN  IF msg.name # "rpc-reply"
        THEN R(device_close_connection(w, dh, LogUnexpected(msg.name, conn_state)), 0)
        ELSE IF ~msg.ns_ok
        THEN R(device_close_connection(w, dh, LogNamespace), 0)
        ELSE IF msg.body = "none"
        THEN R(w, -1)
        ELSE IF w.devs[dh].yspec.st = "NULL"
        THEN R(device_close_connection(w, dh, LogNoYangs), 0)
        ELSE IF msg.body \in {"config_nobind", "schemas"}
        THEN R(device_close_connection(w, dh, LogBindFailed), 0)
        ELSE LET w1 == SetDev(w, dh, [w.devs[dh] EXCEPT !.sync_xml = "t1"])
                 put == IF env.put_ok THEN xmldb_put(w1, "t1") ELSE w1
                 commit == candidate_commit(put)
             IN  IF ~(env.put_ok /\ env.commit_ok)
                 THEN R(device_close_connection(xmldb_copy(put), dh,
                                                LogCommitFailed), 0)
                 ELSE R(commit, 1)

\* variant: a rejected commit closes the device and leaves candidate as it is
device_state_recv_config_nodiscard(w, dh, msg, env) ==
    LET conn_state == w.devs[dh].conn_state
    IN  IF msg.name # "rpc-reply"
        THEN R(device_close_connection(w, dh, LogUnexpected(msg.name, conn_state)), 0)
        ELSE IF ~msg.ns_ok
        THEN R(device_close_connection(w, dh, LogNamespace), 0)
        ELSE IF msg.body = "none"
        THEN R(w, -1)
        ELSE IF w.devs[dh].yspec.st = "NULL"
        THEN R(device_close_connection(w, dh, LogNoYangs), 0)
        ELSE IF msg.body \in {"config_nobind", "schemas"}
        THEN R(device_close_connection(w, dh, LogBindFailed), 0)
        ELSE LET put == IF env.put_ok THEN xmldb_put(w, "t1") ELSE w
                 commit == candidate_commit(put)
             IN  IF ~(env.put_ok /\ env.commit_ok)
                 THEN R(device_close_connection(put, dh, LogCommitFailed), 0)
                 ELSE R(commit, 1)

\* device_state_recv_config: bind the pulled data to the device's yspec, put it in
\* candidate under the mount-point and commit.  1 OK, 0 closed, -1 error.
\* A reply without <data> leaves xdata NULL, which the code dereferences: error.
device_state_recv_config(w, dh, msg, env) ==
    LET conn_state == w.devs[dh].conn_state
    IN  IF msg.name # "rpc-reply"
        THEN R(device_close_connection(w, dh, LogUnexpected(msg.name, conn_state)), 0)
        ELSE IF ~msg.ns_ok
        THEN R(device_close_connection(w, dh, LogNamespace), 0)
        ELSE IF msg.body = "none"
        THEN R(w, -1)
        ELSE IF w.devs[dh].yspec.st = "NULL"
        THEN R(device_close_connection(w, dh, LogNoYangs), 0)
        ELSE IF msg.body \in {"config_nobind", "schemas"}
        THEN R(device_close_connection(w, dh, LogBindFailed), 0)
        ELSE LET put == IF env.put_ok THEN xmldb_put(w, "t1") ELSE w
                 commit == candidate_commit(put)
             IN  IF ~env.put_ok
                 THEN R(device_close_connection(xmldb_copy(put), dh,
                                                LogCommitFailed), 0)
                 ELSE IF ~env.commit_ok
                 THEN R(device_close_connection(xmldb_copy(put), dh,
                                                LogCommitFailed), 0)
                 ELSE R(commit, 1)

\* variant: the result of device_state_schemas_ready is tested for an error only
handler_schema_next_ignoreparse(r, dh, next, env) ==
    IF r.ret < 0 THEN R(r.w, -1)
    ELSE IF r.ret = 0
    THEN LET ready == device_state_schemas_ready(r.w, dh, env)
         IN  IF ready.ret < 0 THEN R(ready.w, -1)
             ELSE LET sync == device_send_sync(ready.w, dh)
                  IN  IF sync.ret < 0 THEN R(sync.w, -1)
                      ELSE R(SetDev(sync.w, dh, device_state_timeout_restart(
                                 [sync.w.devs[dh] EXCEPT
                                     !.conn_state = "CS_DEVICE_SYNC"])), 0)
    ELSE R(SetDev(r.w, dh, device_state_timeout_restart(
               [r.w.devs[dh] EXCEPT !.nr_schemas = r.nr,
                                    !.conn_state = next])), 0)

\* variant: when the schemas are ready the device is opened without a pull
handler_schema_next_nosync(r, dh, next, env) ==
    IF r.ret < 0 THEN R(r.w, -1)
    ELSE IF r.ret = 0
    THEN LET ready == device_state_schemas_ready(r.w, dh, env)
         IN  IF ready.ret < 0 THEN R(ready.w, -1)
             ELSE IF ready.ret = 0
             THEN R(device_close_connection(ready.w, dh, LogYangParse), 0)
             ELSE R(SetDev(ready.w, dh, device_state_timeout_unregister(
                        [ready.w.devs[dh] EXCEPT !.conn_state = "CS_OPEN"])), 0)
    ELSE R(SetDev(r.w, dh, device_state_timeout_restart(
               [r.w.devs[dh] EXCEPT !.nr_schemas = r.nr,
                                    !.conn_state = next])), 0)

\* device_state_handler, the end of CS_SCHEMA_LIST and of CS_SCHEMA_ONE: r is the
\* result of device_send_get_schema_next; next is the state in which the next
\* module is awaited
handler_schema_next(r, dh, next, env) ==
    IF r.ret < 0 THEN R(r.w, -1)
    ELSE IF r.ret = 0
    THEN LET ready == device_state_schemas_ready(r.w, dh, env)
         IN  IF ready.ret < 0 THEN R(ready.w, -1)
             ELSE IF ready.ret = 0
             THEN R(device_close_connection(ready.w, dh, LogYangParse), 0)
             ELSE LET sync == device_send_sync(ready.w, dh)
                  IN  IF sync.ret < 0 THEN R(sync.w, -1)
                      ELSE R(SetDev(sync.w, dh, device_state_timeout_restart(
                                 [sync.w.devs[dh] EXCEPT
                                     !.conn_state = "CS_DEVICE_SYNC"])), 0)
    ELSE R(SetDev(r.w, dh, device_state_timeout_restart(
               [r.w.devs[dh] EXCEPT !.nr_schemas = r.nr,
                                    !.conn_state = next])), 0)

\* variant: the list-schemas request is sent whatever the peer advertises
handler_connecting_nomonitoring(w, dh, msg) ==
    LET hello == device_state_recv_hello(w, dh, msg)
    IN  IF hello.ret < 0 THEN R(hello.w, -1)
        ELSE IF hello.ret = 0 THEN R(hello.w, 0)
        ELSE LET w1 == SetDev(hello.w, dh,
                           [hello.w.devs[dh] EXCEPT !.yspec = YspecNew])
                 list == device_send_get_schema_list(w1, dh)
             IN  IF list.ret < 0 THEN R(list.w, -1)
                 ELSE R(SetDev(list.w, dh, device_state_timeout_restart(
                            [list.w.devs[dh] EXCEPT
                                !.conn_state = "CS_SCHEMA_LIST"])), 0)

\* case CS_CONNECTING
handler_connecting(w, dh, msg) ==
    LET hello == device_state_recv_hello(w, dh, msg)
    IN  IF hello.ret < 0 THEN R(hello.w, -1)
        ELSE IF hello.ret = 0 THEN R(hello.w, 0)
        ELSE LET w1 == SetDev(hello.w, dh,
                           [hello.w.devs[dh] EXCEPT !.yspec = YspecNew])
             IN  IF MONITORING \notin msg.caps
                 THEN R(device_close_connection(w1, dh, LogNoSchemaMethod), 0)
                 ELSE LET list == device_send_get_schema_list(w1, dh)
                      IN  IF list.ret < 0 THEN R(list.w, -1)
                          ELSE R(SetDev(list.w, dh, device_state_timeout_restart(
                                     [list.w.devs[dh] EXCEPT
                                         !.conn_state = "CS_SCHEMA_LIST"])), 0)

\* case CS_SCHEMA_LIST: the result of device_state_recv_schema_list is tested for
\* an error only, not for "closed"
handler_schema_list(w, dh, msg, env) ==
    LET list == device_state_recv_schema_list(w, dh, msg)
    IN  IF list.ret < 0 THEN R(list.w, -1)
        ELSE handler_schema_next(device_send_get_schema_next(list.w, dh, 0),
                                 dh, "CS_SCHEMA_ONE", env)

\* case CS_SCHEMA_ONE
handler_schema_one(w, dh, msg, env) ==
    LET one == device_state_recv_get_schema(w, dh, msg)
    IN  IF one.ret < 0 THEN R(one.w, -1)
        ELSE IF one.ret = 0 THEN R(one.w, 0)
        ELSE handler_schema_next(
                 device_send_get_schema_next(one.w, dh,
                                             one.w.devs[dh].nr_schemas),
                 dh, "CS_SCHEMA_ONE", env)

\* case CS_DEVICE_SYNC
handler_device_sync(w, dh, msg, env) ==
    LET conf == device_state_recv_config(w, dh, msg, env)
    IN  IF conf.ret < 0 THEN R(conf.w, -1)
        ELSE IF conf.ret = 0 THEN R(conf.w, 0)
        ELSE R(SetDev(conf.w, dh, device_state_timeout_unregister(
                   [conf.w.devs[dh] EXCEPT !.conn_state = "CS_OPEN"])), 0)

\* device_state_handler: one received message in the handle's state
device_state_handler(w, dh, msg, env) ==
    LET conn_state == w.devs[dh].conn_state
    IN  CASE conn_state = "CS_CONNECTING"  -> handler_connecting(w, dh, msg)
          [] conn_state = "CS_SCHEMA_LIST" -> handler_schema_list(w, dh, msg, env)
          [] conn_state = "CS_SCHEMA_ONE"  -> handler_schema_one(w, dh, msg, env)
          [] conn_state = "CS_DEVICE_SYNC" -> handler_device_sync(w, dh, msg, env)
          [] OTHER ->
               R(device_close_connection(w, dh,
                     LogUnexpected(msg.name, conn_state)), 0)

\* what one read event of the socket delivers
\*   "eof"      the peer closed the socket
\*   "partial"  bytes that do not end a frame
\*   "frame"    the bytes that end a frame: well-formed XML with top element msg
\*              (NoElement: none), or not well-formed
NoElement == MsgBase
InEof == [kind |-> "eof", wellformed |-> TRUE, msg |-> NoElement]
InPartial == [kind |-> "partial", wellformed |-> TRUE, msg |-> NoElement]
InGarbage == [kind |-> "frame", wellformed |-> FALSE, msg |-> NoElement]
InFrame(m) == [kind |-> "frame", wellformed |-> TRUE, msg |-> m]

\* netconf_input_frame: the buffer parses when the frame's own bytes are
\* well-formed and nothing of an earlier session precedes them
netconf_input_frame(buf, in) ==
    in.wellformed /\ \A i \in 1..Len(buf) : buf[i] # "old"

\* (history) an rpc-reply that arrives answers the request in flight
Answered(d, msg) ==
    IF msg.name = "rpc-reply"
    THEN [d EXCEPT !.inflight = IF @ > 0 THEN @ - 1 ELSE 0]
    ELSE d

\* variant: after an end of file the session is closed and connected again
device_input_cb_retry(w, dh, in, env) ==
    LET d == w.devs[dh]
    IN  IF in.kind = "eof"
        THEN LET c == device_close_connection(w, dh, LogEof)
             IN  SetDev(c, dh, device_state_timeout_register(
                     [c.devs[dh] EXCEPT !.socket = TRUE, !.fd_reg = TRUE,
                                        !.conn_state = "CS_CONNECTING",
                                        !.sent = <<>>]))
        ELSE IF in.kind = "partial"
        THEN SetDev(w, dh, [d EXCEPT !.frame_buf = Append(@, "cur")])
        ELSE LET w1 == SetDev(w, dh, [d EXCEPT !.frame_buf = <<>>])
             IN  IF ~netconf_input_frame(d.frame_buf, in)
                 THEN device_close_connection(w1, dh, LogInvalidFrame)
                 ELSE IF in.msg = NoElement
                 THEN w1
                 ELSE LET w2 == SetDev(w1, dh, Answered(w1.devs[dh], in.msg))
                          r == device_state_handler(w2, dh, in.msg, env)
                      IN  IF r.ret < 0 THEN Fatal(r.w) ELSE r.w

\* variant: the frame buffer is reset after the test of the parse result
device_input_cb_lateclear(w, dh, in, env) ==
    LET d == w.devs[dh]
    IN  IF in.kind = "eof"
        THEN device_close_connection(w, dh, LogEof)
        ELSE IF in.kind = "partial"
        THEN SetDev(w, dh, [d EXCEPT !.frame_buf = Append(@, "cur")])
        ELSE LET w1 == SetDev(w, dh, [d EXCEPT !.frame_buf = <<>>])
             IN  IF ~netconf_input_frame(d.frame_buf, in)
                 THEN device_close_connection(w, dh, LogInvalidFrame)
                 ELSE IF in.msg = NoElement
                 THEN w1
                 ELSE LET w2 == SetDev(w1, dh, Answered(w1.devs[dh], in.msg))
                          r == device_state_handler(w2, dh, in.msg, env)
                      IN  IF r.ret < 0 THEN Fatal(r.w) ELSE r.w

\* device_input_cb: the input callback of the handle's socket.
\* Result: the world; a handler error ends the event loop.
device_input_cb(w, dh, in, env) ==
    LET d == w.devs[dh]
    IN  IF in.kind = "eof"
        THEN device_close_connection(w, dh, LogEof)
        ELSE IF in.kind = "partial"
        THEN SetDev(w, dh, [d EXCEPT !.frame_buf = Append(@, "cur")])
        ELSE LET w1 == SetDev(w, dh, [d EXCEPT !.frame_buf = <<>>])
             IN  IF ~netconf_input_frame(d.frame_buf, in)
                 THEN device_close_connection(w1, dh, LogInvalidFrame)
                 ELSE IF in.msg = NoElement
                 THEN w1
                 ELSE LET w2 == SetDev(w1, dh, Answered(w1.devs[dh], in.msg))
                          r == device_state_handler(w2, dh, in.msg, env)
                      IN  IF r.ret < 0 THEN Fatal(r.w) ELSE r.w

\* variant: the timeout callback leaves the session as it is
device_state_timeout_noclose(w, dh) ==
    SetDev(w, dh, [w.devs[dh] EXCEPT !.timers = @ - 1])

\* device_state_timeout: the timeout callback; the event loop has removed the
\* timeout that fired
device_state_timeout(w, dh) ==
    device_close_connection(
        SetDev(w, dh, [w.devs[dh] EXCEPT !.timers = @ - 1]), dh, LogTimeout)

-----------------------------------------------------------------------------
(* controller_rpc.c *)

\* one devices/device entry of the running configuration, as the RPCs read it:
\* the bodies of its children name, devname, enabled ("NULL": no such child), and
\* whether conn-type is NETCONF_SSH with an addr
Entries ==
    [name : Names, devname : Names \cup {"NULL"}, enabled : {"true", "false"},
     ssh : BOOLEAN]

\* the devices/device list: at most one entry per name (the list's key), in
\* the order of the names
Configs ==
    {<<>>} \cup {<<e>> : e \in Entries}

\* device_handle_find: the first handle created with that name, 0 for NULL
device_handle_find(w, name) ==
    IF \E dh \in Handles : w.devs[dh].alloc /\ w.devs[dh].name = name
    THEN CHOOSE dh \in Handles :
            /\ w.devs[dh].alloc /\ w.devs[dh].name = name
            /\ \A other \in Handles :
                  w.devs[other].alloc /\ w.devs[other].name = name => dh <= other
    ELSE 0

\* the handle that device_handle_new allocates next, 0 when none is left
NextFree(w) ==
    IF \E dh \in Handles : ~w.devs[dh].alloc
    THEN CHOOSE dh \in Handles :
            ~w.devs[dh].alloc /\ \A other \in Handles : ~w.devs[other].alloc => dh <= other
    ELSE 0

\* device_handle_new: a new handle of that name, in CLOSED
device_handle_new(w, name) ==
    SetDev(w, NextFree(w), [NoHandle EXCEPT !.alloc = TRUE, !.name = name])

\* variant: the input callback is not registered
connect_netconf_ssh_noreg(w, dh) ==
    LET d == w.devs[dh]
    IN  IF d.conn_state # "CS_CLOSED"
        THEN R(w, -1)
        ELSE R([SetDev(w, dh, [device_state_timeout_register(d) EXCEPT
                    !.socket = TRUE,
                    !.conn_state = "CS_CONNECTING",
                    !.frame_buf = [i \in 1..Len(d.frame_buf) |-> "old"],
                    !.sent = <<>>,
                    !.inflight = 0])
                EXCEPT !.framing = NETCONF_SSH_EOM], 0)

\* connect_netconf_ssh: open the transport, register the timeout, set CONNECTING,
\* set the framing option to end-of-message, register the input callback.
\* -1 when the handle is not CLOSED.
\* (the bytes left in the frame buffer now belong to an earlier session; sent is
\* the history of this session's requests)
connect_netconf_ssh(w, dh) ==
    LET d == w.devs[dh]
    IN  IF d.conn_state # "CS_CLOSED"
        THEN R(w, -1)
        ELSE R([SetDev(w, dh, [device_state_timeout_register(d) EXCEPT
                    !.socket = TRUE,
                    !.conn_state = "CS_CONNECTING",
                    !.fd_reg = TRUE,
                    !.frame_buf = [i \in 1..Len(d.frame_buf) |-> "old"],
                    !.sent = <<>>,
                    !.inflight = 0])
                EXCEPT !.framing = NETCONF_SSH_EOM], 0)

\* controller_connect: called with a device entry of a commit
controller_connect(w, xn) ==
    LET dh == device_handle_find(w, xn.name)
    IN  IF xn.enabled = "false"
        THEN LET new == NextFree(w)
                 w1 == device_handle_new(w, xn.name)
             IN  R(SetDev(w1, new, [w1.devs[new] EXCEPT
                       !.logmsg = LogConfiguredDown]), 0)
        ELSE IF dh # 0 /\ w.devs[dh].conn_state # "CS_CLOSED"
        THEN R(w, 0)
        ELSE IF ~xn.ssh
        THEN R(w, 0)
        ELSE IF dh = 0
        THEN connect_netconf_ssh(device_handle_new(w, xn.name), NextFree(w))
        ELSE connect_netconf_ssh(w, dh)

\* whether controller_connect allocates a handle for this entry
NeedsHandle(w, xn) ==
    \/ xn.enabled = "false"
    \/ xn.ssh /\ device_handle_find(w, xn.name) = 0

\* the trees the datastore and the device handle can hold: what the user has
\* configured ("t0") and what a device answers to get-config ("t1")
Trees == {"t0", "t1"}

\* a datastore's devices/device[name]/root ("NULL": the device is not configured)
Roots == Trees \cup {"NULL"}

\* xml_diff(x0, x1): whether dlen, alen or chlen is non-zero
xml_diff(x0, x1) == x0 # x1

\* push_device, the reason of the operation-failed rpc-error it writes to cbret
\* ("": it writes none)
push_device_reply(w, dh) ==
    IF w.devs[dh].sync_xml = "NULL" THEN "No synced device tree"
    ELSE IF w.running = "NULL" THEN "Device not configured"
    ELSE IF w.devs[dh].yspec.st = "NULL" THEN "No YANGs in device"
    ELSE ""

\* variant: a handle without a synced tree is pushed as one with an empty tree
push_device_unsynced(w, dh) ==
    LET d == w.devs[dh]
        x1 == w.running
    IN  IF x1 = "NULL" THEN R(w, 0)
        ELSE IF d.yspec.st = "NULL" THEN R(w, 0)
        ELSE IF xml_diff(d.sync_xml, x1)
        THEN LET edit == SendRequest(w, dh, "edit-config", "")
             IN  IF edit.ret < 0 THEN R(edit.w, -1)
                 ELSE R(SetDev(edit.w, dh, device_state_timeout_register(
                            [edit.w.devs[dh] EXCEPT
                                !.conn_state = "CS_PUSH_EDIT"])), 1)
        ELSE R(w, 1)

\* push_device: 1 OK, 0 failed with an rpc-error, -1 error
push_device(w, dh) ==
    LET d == w.devs[dh]
        x1 == w.running
    IN  IF d.sync_xml = "NULL" THEN R(w, 0)
        ELSE IF x1 = "NULL" THEN R(w, 0)
        ELSE IF d.yspec.st = "NULL" THEN R(w, 0)
        ELSE IF xml_diff(d.sync_xml, x1)
        THEN LET edit == SendRequest(w, dh, "edit-config", "")
             IN  IF edit.ret < 0 THEN R(edit.w, -1)
                 ELSE R(SetDev(edit.w, dh, device_state_timeout_register(
                            [edit.w.devs[dh] EXCEPT
                                !.conn_state = "CS_PUSH_EDIT"])), 1)
        ELSE R(w, 1)

\* pull_device: send get-config, register the timeout, set DEVICE_SYNC
pull_device(w, dh) ==
    LET sync == device_send_sync(w, dh)
    IN  IF sync.ret < 0 THEN R(sync.w, -1)
        ELSE R(SetDev(sync.w, dh,
                   [device_state_timeout_register(sync.w.devs[dh]) EXCEPT
                       !.conn_state = "CS_DEVICE_SYNC"]), 1)

\* fnmatch(pattern, devname, 0) for the patterns "*" and a literal name
fnmatch(pattern, devname) ==
    pattern = "*" \/ pattern = devname

\* rpc_sync, the loop over running's devices/device entries from entry i on.
\* pattern is "NULL" throughout: it is initialised to NULL and never assigned.
RECURSIVE rpc_sync_loop(_, _, _, _, _)
rpc_sync_loop(w, cfg, i, pattern, push) ==
    IF i > Len(cfg) THEN R(w, 0)
    ELSE LET xn == cfg[i]
             dh == device_handle_find(w, xn.devname)
         IN  IF xn.devname = "NULL" \/ dh = 0
             THEN rpc_sync_loop(w, cfg, i + 1, pattern, push)
             ELSE IF w.devs[dh].conn_state # "CS_OPEN"
             THEN rpc_sync_loop(w, cfg, i + 1, pattern, push)
             ELSE IF pattern # "NULL" /\ ~fnmatch(pattern, xn.devname)
             THEN rpc_sync_loop(w, cfg, i + 1, pattern, push)
             ELSE LET r == IF push THEN push_device(w, dh)
                                   ELSE pull_device(w, dh)
                  IN  IF r.ret < 0 THEN R(r.w, -1)
                      ELSE IF r.ret = 0 THEN R(r.w, 0)
                      ELSE rpc_sync_loop(r.w, cfg, i + 1, pattern, push)

\* variant: rpc_sync skips the devices that are CLOSED, not those that are not OPEN
RECURSIVE rpc_sync_notclosed_loop(_, _, _, _, _)
rpc_sync_notclosed_loop(w, cfg, i, pattern, push) ==
    IF i > Len(cfg) THEN R(w, 0)
    ELSE LET xn == cfg[i]
             dh == device_handle_find(w, xn.devname)
         IN  IF xn.devname = "NULL" \/ dh = 0
             THEN rpc_sync_notclosed_loop(w, cfg, i + 1, pattern, push)
             ELSE IF w.devs[dh].conn_state = "CS_CLOSED"
             THEN rpc_sync_notclosed_loop(w, cfg, i + 1, pattern, push)
             ELSE IF pattern # "NULL" /\ ~fnmatch(pattern, xn.devname)
             THEN rpc_sync_notclosed_loop(w, cfg, i + 1, pattern, push)
             ELSE LET r == IF push THEN push_device(w, dh)
                                   ELSE pull_device(w, dh)
                  IN  IF r.ret < 0 THEN R(r.w, -1)
                      ELSE IF r.ret = 0 THEN R(r.w, 0)
                      ELSE rpc_sync_notclosed_loop(r.w, cfg, i + 1, pattern, push)

rpc_sync_notclosed(w, xe, cfg, push) ==
    rpc_sync_notclosed_loop(w, cfg, 1, "NULL", push)

\* variant: rpc_sync acts on a device in any state
RECURSIVE rpc_sync_anystate_loop(_, _, _, _, _)
rpc_sync_anystate_loop(w, cfg, i, pattern, push) ==
    IF i > Len(cfg) THEN R(w, 0)
    ELSE LET xn == cfg[i]
             dh == device_handle_find(w, xn.devname)
         IN  IF xn.devname = "NULL" \/ dh = 0
             THEN rpc_sync_anystate_loop(w, cfg, i + 1, pattern, push)
             ELSE IF pattern # "NULL" /\ ~fnmatch(pattern, xn.devname)
             THEN rpc_sync_anystate_loop(w, cfg, i + 1, pattern, push)
             ELSE LET r == IF push THEN push_device(w, dh)
                                   ELSE pull_device(w, dh)
                  IN  IF r.ret < 0 THEN R(r.w, -1)
                      ELSE IF r.ret = 0 THEN R(r.w, 0)
                      ELSE rpc_sync_anystate_loop(r.w, cfg, i + 1, pattern, push)

rpc_sync_anystate(w, xe, cfg, push) ==
    rpc_sync_anystate_loop(w, cfg, 1, "NULL", push)

\* the request of sync-pull and sync-push: the body of its devname child, a glob
\* pattern ("d2" matches no configured device), and of its transient child
\* ("NULL": none)
SyncRequests ==
    {[devname |-> "*", transient |-> "NULL"],
     [devname |-> "d2", transient |-> "NULL"],
     [devname |-> "*", transient |-> "true"]}

\* the devices/device lists as rpc_sync reads them: of an entry it reads devname
\* only, so one list stands for all that differ in the other leaves
SyncConfigs == {cfg \in Configs : \A i \in DOMAIN cfg : cfg[i].enabled = "true" /\ cfg[i].ssh}

\* rpc_sync: sync-pull (push FALSE) and sync-push (push TRUE).  The request xe is
\* not read: pattern stays NULL.
rpc_sync(w, xe, cfg, push) ==
    rpc_sync_loop(w, cfg, 1, "NULL", push)

\* rpc_reconnect, the loop over running's devices/device entries from entry i on
RECURSIVE rpc_reconnect_loop(_, _, _, _)
rpc_reconnect_loop(w, cfg, i, pattern) ==
    IF i > Len(cfg) THEN R(w, 0)
    ELSE LET xn == cfg[i]
             dh == device_handle_find(w, xn.devname)
         IN  IF xn.devname = "NULL" \/ dh = 0
             THEN rpc_reconnect_loop(w, cfg, i + 1, pattern)
             ELSE IF w.devs[dh].conn_state # "CS_CLOSED"
             THEN rpc_reconnect_loop(w, cfg, i + 1, pattern)
             ELSE IF pattern # "NULL" /\ ~fnmatch(pattern, xn.devname)
             THEN rpc_reconnect_loop(w, cfg, i + 1, pattern)
             ELSE LET r == controller_connect(w, xn)
                  IN  IF r.ret < 0 THEN R(r.w, -1)
                      ELSE rpc_reconnect_loop(r.w, cfg, i + 1, pattern)

rpc_reconnect(w, cfg) ==
    rpc_reconnect_loop(w, cfg, 1, "NULL")

\* the request of transaction-error as send_transaction_error builds it
TransactionErrors ==
    [tid : {1}, origin : {"CLI"}, reason : {<<"Aborted by user">>}]

\* rpc_transaction_error: returns 0; reads nothing of the request, writes no reply
\* and changes no device
rpc_transaction_error(w, xe) == R(w, 0)

\* enum transaction_result
TransactionResults == {"TR_INIT", "TR_SUCCESS", "TR_FAILED", "TR_ERROR"}

\* what one device reports at the end of its part of a transaction
Outcomes == TransactionResults \ {"TR_INIT"}

\* controller_transaction_new: a new transaction whose id is one more than the id
\* allocated last; the ids start at 1.  The new transaction is the last of
\* w.transactions.
controller_transaction_new(w) ==
    LET ct == [ct_id |-> Len(w.transactions) + 1, ct_origin |-> "NULL",
               ct_reports |-> <<>>, ct_result |-> "TR_INIT"]
    IN  R([w EXCEPT !.transactions = Append(@, ct)], 0)

\* the result of a transaction after one more outcome: TR_ERROR if any outcome is,
\* else TR_FAILED if any outcome is, else TR_SUCCESS
transaction_aggregate(result, outcome) ==
    IF result = "TR_ERROR" \/ outcome = "TR_ERROR" THEN "TR_ERROR"
    ELSE IF result = "TR_FAILED" \/ outcome = "TR_FAILED" THEN "TR_FAILED"
    ELSE "TR_SUCCESS"

\* variant: the outcome reported last is the result
controller_transaction_report_last(w, tid, outcome) ==
    [w EXCEPT !.transactions[tid].ct_reports = Append(@, outcome),
              !.transactions[tid].ct_result = outcome]

\* a device reports its outcome to transaction tid
controller_transaction_report(w, tid, outcome) ==
    [w EXCEPT !.transactions[tid].ct_reports = Append(@, outcome),
              !.transactions[tid].ct_result = transaction_aggregate(@, outcome)]

\* the request of transaction-new: the body of its origin child, "NULL" for none
TransactionNews == [origin : {"NULL", "CLI"}]

\* variant: the reply is written before the transaction is created
rpc_transaction_new_stale(w, xe) ==
    LET new == controller_transaction_new(w)
        i == Len(new.w.transactions)
        w1 == IF xe.origin # "NULL"
              THEN [new.w EXCEPT !.transactions[i].ct_origin = xe.origin]
              ELSE new.w
    IN  [w |-> w1, ret |-> 0, id |-> Len(w.transactions)]

\* rpc_transaction_new: creates a transaction, stores the origin of the request in
\* it and replies its id
rpc_transaction_new(w, xe) ==
    LET new == controller_transaction_new(w)
        i == Len(new.w.transactions)
        w1 == IF xe.origin # "NULL"
              THEN [new.w EXCEPT !.transactions[i].ct_origin = xe.origin]
              ELSE new.w
    IN  IF new.ret < 0 THEN [w |-> new.w, ret |-> -1, id |-> 0]
        ELSE [w |-> w1, ret |-> 0, id |-> w1.transactions[i].ct_id]

\* whether rpc_reconnect allocates a handle that is not left
RECURSIVE ReconnectFits(_, _, _)
ReconnectFits(w, cfg, i) ==
    IF i > Len(cfg) THEN TRUE
    ELSE LET xn == cfg[i]
             dh == device_handle_find(w, xn.devname)
             acts == xn.devname # "NULL" /\ dh # 0
                     /\ w.devs[dh].conn_state = "CS_CLOSED"
         IN  IF ~acts THEN ReconnectFits(w, cfg, i + 1)
             ELSE /\ NeedsHandle(w, xn) => NextFree(w) # 0
                  /\ ReconnectFits(controller_connect(w, xn).w, cfg, i + 1)

-----------------------------------------------------------------------------
(* The CLI: a command that starts a transaction and waits for its notification *)

\* the CLI process between two commands; a command keeps in cli its position
\* (pc), the tid it waits for, the locals match, eof and result of the poll, and
\* what it has sent to the backend (rpcs), written to stderr (out) and returned
CliIdle ==
    [pc |-> "idle", cmd |-> "NULL", tidstr |-> 0, match |-> 0, eof |-> 0,
     result |-> "TR_INIT", rpcs |-> <<>>, out |-> <<>>, retval |-> 0]

\* what clicon_msg_rcv gives on the notification socket: a controller-transaction
\* notification, an interrupted receive (-1) or the end of the stream
CliEvents ==
    [kind : {"notification"}, tid : 1..MaxTid, result : Outcomes]
    \cup [kind : {"intr", "eof"}, tid : {0}, result : {"NULL"}]

\* the replies of the backend to the rpcs that a command sends while it polls
CliEnvs == [error_ok : BOOLEAN, diff_ok : BOOLEAN]

CliSend(c, rpc) == [c EXCEPT !.rpcs = Append(@, rpc)]

cligen_output(c, str) == [c EXCEPT !.out = Append(@, str)]

\* variant: the end of the stream is taken for an interrupted receive
transaction_notification_handler_noeof(c, tidstr0, ev) ==
    IF ev.kind \in {"intr", "eof"} THEN R(c, -1)
    ELSE LET c1 == IF tidstr0 = ev.tid THEN [c EXCEPT !.match = 1] ELSE c
         IN  IF ev.result # "TR_SUCCESS" THEN R(c1, 0)
             ELSE R([c1 EXCEPT !.result = ev.result], 0)

\* transaction_notification_handler: match is set when the tid of the notification
\* is tidstr0; *resultp is written only when the result is TR_SUCCESS
transaction_notification_handler(c, tidstr0, ev) ==
    IF ev.kind = "intr" THEN R(c, -1)
    ELSE IF ev.kind = "eof" THEN R([c EXCEPT !.eof = 1], -1)
    ELSE LET c1 == IF tidstr0 = ev.tid THEN [c EXCEPT !.match = 1] ELSE c
         IN  IF ev.result # "TR_SUCCESS" THEN R(c1, 0)
             ELSE R([c1 EXCEPT !.result = ev.result], 0)

\* send_transaction_error
send_transaction_error(c, tidstr, env) ==
    LET c1 == CliSend(c, [op |-> "transaction-error", tid |-> tidstr,
                          origin |-> "CLI", reason |-> "Aborted by user"])
    IN  R(c1, IF env.error_ok THEN 0 ELSE -1)

\* transaction_notification_poll, after its loop
transaction_notification_poll_end(c) ==
    IF c.match = 1 /\ c.result = "TR_ERROR" THEN R(cligen_output(c, "Error"), 0)
    ELSE IF c.match = 1 /\ c.result = "TR_FAILED"
    THEN R(cligen_output(c, "Failed"), 0)
    ELSE R(c, 0)

\* transaction_notification_poll: one pass of its loop on what is received and,
\* when the loop is left, the rest of the function; loop tells that it goes on
transaction_notification_poll(c, ev, env) ==
    LET hd == transaction_notification_handler(c, c.tidstr, ev)
        se == send_transaction_error(hd.w, c.tidstr, env)
        end == IF hd.ret < 0
               THEN IF hd.w.eof = 1 THEN R(hd.w, -1)
                    ELSE IF se.ret < 0 THEN R(se.w, -1)
                    ELSE transaction_notification_poll_end(
                             cligen_output(se.w, "Aborted by user"))
               ELSE transaction_notification_poll_end(hd.w)
    IN  IF hd.ret = 0 /\ hd.w.match = 0
        THEN [w |-> hd.w, ret |-> 0, loop |-> TRUE]
        ELSE [w |-> end.w, ret |-> end.ret, loop |-> FALSE]

\* the commands: pull, commit (with the diff of its dry run or without), and the
\* comparison of two device config types
CliCommands == {"pull", "commit", "commit-diff", "compare-synced",
                "compare-transient"}

\* compare_device_config_type from the datastore-diff request on
datastore_diff(c, env) ==
    R(CliSend(c, [op |-> "datastore-diff", tid |-> 0, origin |-> "NULL",
                  reason |-> "NULL"]),
      IF env.diff_ok THEN 0 ELSE -1)

\* cli_rpc_pull, cli_rpc_controller_commit and compare_device_config_type from
\* the return of transaction_notification_poll on
cli_after_poll(c, ret, env) ==
    IF ret < 0 THEN R(c, -1)
    ELSE IF c.cmd = "pull"
    THEN IF c.result = "TR_SUCCESS" THEN R(cligen_output(c, "OK"), 0)
         ELSE R(c, 0)
    ELSE IF c.cmd \in {"commit", "commit-diff"}
    THEN IF c.result # "TR_SUCCESS" THEN R(c, 0)
         ELSE IF c.cmd = "commit-diff"
         THEN R(cligen_output(CliSend(c, [op |-> "get-config", tid |-> 0,
                       origin |-> "NULL", reason |-> "NULL"]), "OK"), 0)
         ELSE R(cligen_output(c, "OK"), 0)
    ELSE IF c.result # "TR_SUCCESS" THEN R(c, -1)
         ELSE datastore_diff(c, env)

\* what a command does with what it receives while it polls
cli_receive(c, ev, env) ==
    LET poll == transaction_notification_poll(c, ev, env)
        end == cli_after_poll(poll.w, poll.ret, env)
    IN  IF poll.loop THEN poll.w
        ELSE [end.w EXCEPT !.pc = "idle", !.retval = end.ret]

\* the request that starts the transaction of a command
CliRequest(cmd) ==
    [op |-> CASE cmd = "pull" -> "config-pull"
              [] cmd = "compare-transient" -> "config-pull-transient"
              [] OTHER -> "controller-commit",
     tid |-> 0, origin |-> "NULL", reason |-> "NULL"]

\* cli_rpc_pull, cli_rpc_controller_commit and compare_device_config_type up to
\* the poll: the request is sent and answered with tid, or with an rpc-error
\* (tid 0); the local result is declared without a value, so it holds any
cli_command(cmd, tid, garbage, env) ==
    IF cmd = "compare-synced"
    THEN LET df == datastore_diff([CliIdle EXCEPT !.cmd = cmd], env)
         IN  [df.w EXCEPT !.retval = df.ret]
    ELSE LET c == CliSend([CliIdle EXCEPT !.cmd = cmd], CliRequest(cmd))
         IN  IF tid = 0 THEN [c EXCEPT !.retval = -1]
             ELSE [c EXCEPT !.pc = "poll", !.tidstr = tid, !.result = garbage]

-----------------------------------------------------------------------------
(* The state machine *)

\* the message-ids of the model stay within MaxMsgId
IdsInBound(w) ==
    \A dh \in Handles : w.devs[dh].msg_id <= MaxMsgId + 1

\* a session is opened on a handle only while a message-id is left for it
IdLeft(w, name) ==
    LET dh == device_handle_find(w, name)
    IN  dh # 0 => w.devs[dh].msg_id <= MaxMsgId

Apply(w) ==
    /\ IdsInBound(w)
    /\ devs' = w.devs
    /\ netconf_framing' = w.framing
    /\ files' = w.files
    /\ exited' = w.exited
    /\ running' = w.running
    /\ candidate' = w.candidate
    /\ transactions' = w.transactions
    /\ notifications' = w.notifications
    /\ cli' = cli

\* no handle; the option "netconf-framing" is not set; the schema cache is empty or
\* holds a module of an earlier run; candidate is a copy of running
Init ==
    /\ devs = [dh \in Handles |-> NoHandle]
    /\ netconf_framing = FramingUnset
    /\ files \in {{}, {"ma"}}
    /\ exited = FALSE
    /\ running = "t0"
    /\ candidate = running
    /\ transactions = <<>>
    /\ notifications = <<>>
    /\ cli = CliIdle

\* a commit calls controller_connect with a device entry
Connect(xn) ==
    /\ ~exited
    /\ NeedsHandle(World, xn) => NextFree(World) # 0
    /\ IdLeft(World, xn.name)
    /\ Apply(controller_connect(World, xn).w)

\* the event loop calls device_input_cb: the handle's socket is readable and the
\* read returns end of file
InputEof(dh) ==
    /\ ~exited
    /\ devs[dh].fd_reg
    /\ Apply(device_input_cb(World, dh, InEof, EnvOk))

\* ... the read returns bytes that do not end a frame
InputPartial(dh) ==
    /\ ~exited
    /\ devs[dh].fd_reg
    /\ Len(devs[dh].frame_buf) < MaxBuf
    /\ Apply(device_input_cb(World, dh, InPartial, EnvOk))

\* ... the read ends a frame that is not well-formed
InputGarbage(dh) ==
    /\ ~exited
    /\ devs[dh].fd_reg
    /\ Apply(device_input_cb(World, dh, InGarbage, EnvOk))

\* ... the read ends a frame that holds the message m
InputFrame(dh, m, env) ==
    /\ ~exited
    /\ devs[dh].fd_reg
    /\ Apply(device_input_cb(World, dh, InFrame(m), env))

\* the event loop calls device_state_timeout: a timeout of the handle has expired
Timeout(dh) ==
    /\ ~exited
    /\ devs[dh].timers > 0
    /\ Apply(device_state_timeout(World, dh))

\* a client calls sync-pull
SyncPull(xe, cfg) ==
    /\ ~exited
    /\ Apply(rpc_sync(World, xe, cfg, FALSE).w)

\* a client calls sync-push
SyncPush(xe, cfg) ==
    /\ ~exited
    /\ Apply(rpc_sync(World, xe, cfg, TRUE).w)

\* a client calls reconnect
Reconnect(cfg) ==
    /\ ~exited
    /\ ReconnectFits(World, cfg, 1)
    /\ \A i \in 1..Len(cfg) : IdLeft(World, cfg[i].devname)
    /\ Apply(rpc_reconnect(World, cfg).w)

\* a client calls transaction-error
TransactionError(xe) ==
    /\ ~exited
    /\ Apply(rpc_transaction_error(World, xe).w)

\* a client calls transaction-new
TransactionNew(xe) ==
    /\ ~exited
    /\ Len(transactions) < MaxTid
    /\ Apply(rpc_transaction_new(World, xe).w)

\* a device of transaction tid has ended its part with that outcome
Report(tid, outcome) ==
    /\ ~exited
    /\ tid \in DOMAIN transactions
    /\ Len(transactions[tid].ct_reports) < MaxReports
    /\ Apply(controller_transaction_report(World, tid, outcome))

Next ==
    \/ \E xn \in Entries : Connect(xn)
    \/ \E dh \in Handles : InputEof(dh)
    \/ \E dh \in Handles : InputPartial(dh)
    \/ \E dh \in Handles : InputGarbage(dh)
    \/ \E dh \in Handles :
          \E m \in Msgs(devs[dh]) \cup {NoElement},
             env \in EnvsOf(devs[dh].conn_state) :
             InputFrame(dh, m, env)
    \/ \E dh \in Handles : Timeout(dh)
    \/ \E xe \in SyncRequests, cfg \in SyncConfigs : SyncPull(xe, cfg)
    \/ \E xe \in SyncRequests, cfg \in SyncConfigs : SyncPush(xe, cfg)
    \/ \E cfg \in Configs : Reconnect(cfg)
    \/ \E xe \in TransactionErrors : TransactionError(xe)

Spec == Init /\ [][Next]_vars

\* the event loop runs every callback that is due
FairSpec == Spec /\ \A dh \in Handles : WF_vars(Timeout(dh))

\* A device that is OPEN after its first session and holds a synced tree, as
\* push_device requires it (device_handle_sync_xml_get(dh) != NULL): the pulled tree
\* has been stored in the handle.  The device's root in running is the pulled tree
\* or the tree the user has committed since.
SyncedHandle ==
    [NoHandle EXCEPT
        !.alloc = TRUE, !.name = "d1", !.conn_state = "CS_OPEN",
        !.socket = TRUE, !.fd_reg = TRUE,
        !.yspec = [st |-> "parsed", mods |-> {}], !.yang_lib = <<>>,
        !.msg_id = 3, !.sync_xml = "t1",
        !.sent = <<[op |-> "hello", id |-> 0, arg |-> BASE10],
                   [op |-> "get", id |-> 1, arg |-> ""],
                   [op |-> "get-config", id |-> 2, arg |-> ""]>>]

PushInit ==
    /\ devs = [dh \in Handles |-> IF dh = 1 THEN SyncedHandle ELSE NoHandle]
    /\ netconf_framing = NETCONF_SSH_EOM
    /\ files = {}
    /\ exited = FALSE
    /\ running \in Trees
    /\ candidate = running
    /\ transactions = <<>>
    /\ notifications = <<>>
    /\ cli = CliIdle

\* the state machine from a device with a synced tree
PushSpec == PushInit /\ [][Next]_vars

\* the user gives a command to an idle CLI
CliCommand(cmd, tid, garbage, env) ==
    /\ cli.pc = "idle"
    /\ cli' = cli_command(cmd, tid, garbage, env)
    /\ UNCHANGED <<devs, netconf_framing, files, exited, running, candidate,
                   transactions, notifications>>

\* the polling command receives a notification, is interrupted or finds the
\* notification socket closed
CliReceive(ev, env) ==
    /\ cli.pc = "poll"
    /\ cli' = cli_receive(cli, ev, env)
    /\ UNCHANGED <<devs, netconf_framing, files, exited, running, candidate,
                   transactions, notifications>>

CliNext ==
    \/ \E cmd \in CliCommands, tid \in 0..MaxTid, garbage \in TransactionResults,
          env \in CliEnvs : CliCommand(cmd, tid, garbage, env)
    \/ \E ev \in CliEvents, env \in CliEnvs : CliReceive(ev, env)

\* the CLI alone: its commands and what it receives from the backend
CliSpec == Init /\ [][CliNext]_vars

\* Two configured devices, d1 and d2, both OPEN after their first session; the
\* handle of each holds no synced tree or the pulled one.
MultiConfig ==
    <<[name |-> "d1", devname |-> "d1", enabled |-> "true", ssh |-> TRUE],
      [name |-> "d2", devname |-> "d2", enabled |-> "true", ssh |-> TRUE]>>

MultiInit ==
    /\ \E x1, x2 \in {"NULL", "t1"} :
          devs = [dh \in Handles |->
                    IF dh = 1 THEN [SyncedHandle EXCEPT !.sync_xml = x1]
                    ELSE [SyncedHandle EXCEPT !.name = "d2", !.sync_xml = x2]]
    /\ netconf_framing = NETCONF_SSH_EOM
    /\ files = {}
    /\ exited = FALSE
    /\ running \in Trees
    /\ candidate = running
    /\ transactions = <<>>
    /\ notifications = <<>>
    /\ cli = CliIdle

\* ... with the RPCs that read both device entries
MultiNext ==
    \/ \E xe \in SyncRequests : SyncPull(xe, MultiConfig)
    \/ \E xe \in SyncRequests : SyncPush(xe, MultiConfig)
    \/ \E dh \in Handles : InputEof(dh)
    \/ \E dh \in Handles :
          \E m \in Msgs(devs[dh]) \cup {NoElement},
             env \in EnvsOf(devs[dh].conn_state) :
             InputFrame(dh, m, env)
    \/ \E dh \in Handles : Timeout(dh)

MultiSpec == MultiInit /\ [][MultiNext]_vars

\* A device with a synced tree that is pulled, pushed and closed, with clients
\* that create transactions
TransNext ==
    \/ \E xe \in TransactionNews : TransactionNew(xe)
    \/ \E xe \in TransactionErrors : TransactionError(xe)
    \/ \E xe \in SyncRequests, cfg \in SyncConfigs : SyncPull(xe, cfg)
    \/ \E xe \in SyncRequests, cfg \in SyncConfigs : SyncPush(xe, cfg)
    \/ \E dh \in Handles : InputEof(dh)
    \/ \E dh \in Handles : Timeout(dh)

TransSpec == PushInit /\ [][TransNext]_vars

\* One transaction and the outcomes its devices report, in any order
AggInit ==
    /\ devs = [dh \in Handles |-> NoHandle]
    /\ netconf_framing = FramingUnset
    /\ files \in {{}, {"ma"}}
    /\ exited = FALSE
    /\ running = "t0"
    /\ candidate = running
    /\ \E xe \in TransactionNews :
          transactions = rpc_transaction_new(
              [transactions |-> <<>>], xe).w.transactions
    /\ notifications = <<>>
    /\ cli = CliIdle

AggNext == \E outcome \in Outcomes : Report(1, outcome)

AggSpec == AggInit /\ [][AggNext]_vars

-----------------------------------------------------------------------------
(* Properties *)

\* the step delivers the complete frame with message m to device_state_handler
Handled(dh, m, env) ==
    /\ netconf_input_frame(devs[dh].frame_buf, InFrame(m))
    /\ InputFrame(dh, m, env)

\* the message name a state expects ("": none)
ExpectedName(conn_state) ==
    CASE conn_state = "CS_CONNECTING" -> "hello"
      [] conn_state \in {"CS_SCHEMA_LIST", "CS_SCHEMA_ONE", "CS_DEVICE_SYNC"} ->
            "rpc-reply"
      [] OTHER -> ""

\* the requests of the session (what was sent but the controller's <hello>)
Requests(d) == SelectSeq(d.sent, LAMBDA r : r.op # "hello")

Transient(dh) == devs[dh].conn_state \in TransientStates

\* C1: a complete frame whose message name is not the one the state expects makes
\* device_state_handler return with the device in CLOSED and the log message
\* "Unexpected msg <name> in state <state>"; nothing is sent after the close, no
\* transient state is entered and the handler does not end in an error.
C1_UnexpectedMsgCloses ==
    [][\A dh \in Handles :
         \A m \in {x \in Msgs(devs[dh]) :
                      x.name # ExpectedName(devs[dh].conn_state)} :
           \A env \in EnvsOf(devs[dh].conn_state) :
              Handled(dh, m, env) =>
                 /\ devs'[dh].conn_state = "CS_CLOSED"
                 /\ devs'[dh].logmsg = LogUnexpected(m.name, devs[dh].conn_state)
                 /\ devs'[dh].sent = devs[dh].sent
                 /\ exited' = exited]_vars

\* C2: when the timeout of a device in a transient state fires, the device is
\* CLOSED with the log message "Timeout waiting for remote peer", its socket is
\* closed, its input callback and timeout are gone and nothing was sent; and a
\* device in a transient state always leaves it (or the event loop has ended).
C2_TimeoutCloses ==
    /\ [][\A dh \in Handles :
            (Transient(dh) /\ Timeout(dh)) =>
               /\ devs'[dh].conn_state = "CS_CLOSED"
               /\ devs'[dh].logmsg = LogTimeout
               /\ ~devs'[dh].socket
               /\ ~devs'[dh].fd_reg
               /\ devs'[dh].timers = 0
               /\ devs'[dh].sent = devs[dh].sent]_vars
    /\ \A dh \in Handles : Transient(dh) ~> (~Transient(dh) \/ exited)

\* C2 happens: a session that sent its requests and was closed by the timeout
C2_Witness ==
    \E dh \in Handles :
       /\ devs[dh].conn_state = "CS_CLOSED"
       /\ devs[dh].logmsg = LogTimeout
       /\ Len(Requests(devs[dh])) > 0

\* C3: a device in OPEN has a parsed schema set and a synced tree that is not NULL.
C3_OpenHasSchemasAndSyncedXml ==
    \A dh \in Handles :
       devs[dh].conn_state = "CS_OPEN" =>
          /\ devs[dh].yspec.st = "parsed"
          /\ devs[dh].sync_xml # "NULL"

\* C4: a device in CLOSED has no registered input callback, no pending timeout
\* and an empty frame buffer.
C4_ClosedIsClean ==
    \A dh \in Handles :
       (devs[dh].alloc /\ devs[dh].conn_state = "CS_CLOSED") =>
          /\ ~devs[dh].fd_reg
          /\ devs[dh].timers = 0
          /\ devs[dh].frame_buf = <<>>

\* C5: a device has at most one pending timeout: exactly one in a transient
\* state, none in OPEN.
C5_OneTimeout ==
    \A dh \in Handles :
       /\ devs[dh].timers <= 1
       /\ Transient(dh) => devs[dh].timers = 1
       /\ devs[dh].conn_state = "CS_OPEN" => devs[dh].timers = 0

\* C5 happens: a device that entered its third transient state of the session
C5_Witness ==
    \E dh \in Handles :
       /\ devs[dh].conn_state = "CS_SCHEMA_ONE"
       /\ devs[dh].timers = 1

\* C6: the message-ids of the requests of a session are strictly increasing and
\* the first request after a connect carries message-id 1.
C6_MessageIdsFromOne ==
    \A dh \in Handles :
       LET reqs == Requests(devs[dh])
       IN  /\ \A i, j \in 1..Len(reqs) : i < j => reqs[i].id < reqs[j].id
           /\ reqs # <<>> => reqs[1].id = 1

\* C7: an rpc-reply whose message-id is not that of the last request sent closes
\* the session.
C7_MismatchedReplyRejected ==
    [][\A dh \in Handles :
         LET reqs == Requests(devs[dh])
         IN  \A m \in {x \in ReplyMsgs(devs[dh]) :
                          reqs # <<>> /\ x.mid # reqs[Len(reqs)].id} :
               \A env \in EnvsOf(devs[dh].conn_state) :
                  Handled(dh, m, env) => devs'[dh].conn_state = "CS_CLOSED"]_vars

\* C8: a device has at most one request in flight.
C8_OneInFlight ==
    \A dh \in Handles : devs[dh].inflight <= 1

\* C8 happens: the third request of a session is in flight, the two before it
\* were answered
C8_Witness ==
    \E dh \in Handles :
       /\ devs[dh].conn_state = "CS_DEVICE_SYNC"
       /\ devs[dh].inflight = 1
       /\ Len(Requests(devs[dh])) = 3

C10_HelloWithoutBaseCloses ==
    [][\A dh \in Handles :
         \A m \in {x \in HelloMsgs : /\ x.ns_ok /\ x.has_caps
                                     /\ BASE10 \notin x.caps
                                     /\ BASE11 \notin x.caps} :
            (devs[dh].conn_state = "CS_CONNECTING" /\ Handled(dh, m, EnvOk)) =>
               /\ devs'[dh].conn_state = "CS_CLOSED"
               /\ devs'[dh].logmsg # LogNull
               /\ devs'[dh].sent = devs[dh].sent
               /\ devs'[dh].msg_id = devs[dh].msg_id]_vars

\* C10 happens: a session closed for the missing base capability
C10_Witness ==
    \E dh \in Handles :
       /\ devs[dh].conn_state = "CS_CLOSED"
       /\ devs[dh].logmsg = LogNoBase
       /\ devs[dh].sent = <<>>

\* C11: in CONNECTING a <hello> with a base capability but without
\* ietf-netconf-monitoring closes the session with the log message "No method to
\* get schemas"; no list-schemas request is sent (no message-id is taken) and
\* SCHEMA_LIST is not entered.
C11_HelloWithoutMonitoringCloses ==
    [][\A dh \in Handles :
         devs[dh].conn_state = "CS_CONNECTING" =>
         \A m \in {x \in HelloMsgs : /\ x.ns_ok /\ x.has_caps
                                     /\ hello_version(x.caps) >= 0
                                     /\ MONITORING \notin x.caps} :
            Handled(dh, m, EnvOk) =>
               /\ devs'[dh].conn_state = "CS_CLOSED"
               /\ devs'[dh].logmsg = LogNoSchemaMethod
               /\ Requests(devs'[dh]) = Requests(devs[dh])
               /\ devs'[dh].msg_id = devs[dh].msg_id]_vars

\* C11 happens: a session closed after the controller's <hello>, before any request
C11_Witness ==
    \E dh \in Handles :
       /\ devs[dh].conn_state = "CS_CLOSED"
       /\ devs[dh].logmsg = LogNoSchemaMethod
       /\ Len(devs[dh].sent) = 1
       /\ Requests(devs[dh]) = <<>>

\* the order in which a session goes through the states: the pairs (from, to) of
\* the changes of conn_state that do not end in CLOSED
SessionOrder ==
    {<<"CS_CLOSED", "CS_CONNECTING">>,
     <<"CS_CONNECTING", "CS_SCHEMA_LIST">>,
     <<"CS_SCHEMA_LIST", "CS_SCHEMA_ONE">>,
     <<"CS_SCHEMA_LIST", "CS_DEVICE_SYNC">>,
     <<"CS_SCHEMA_ONE", "CS_DEVICE_SYNC">>,
     <<"CS_DEVICE_SYNC", "CS_OPEN">>,
     <<"CS_OPEN", "CS_DEVICE_SYNC">>,
     <<"CS_OPEN", "CS_PUSH_EDIT">>}

\* what a session that is OPEN has sent: <hello>, get, get-schema (k - 2 times, each
\* for another module of the yang-library), then get-config (once for the connect,
\* once more for every later pull)
OpenSent(d) ==
    LET s == d.sent
        n == Len(s)
    IN  /\ n >= 3
        /\ s[1].op = "hello"
        /\ s[2].op = "get"
        /\ \E k \in 2..(n - 1) :
              /\ \A i \in 3..k :
                    /\ s[i].op = "get-schema"
                    /\ \E j \in 1..Len(LibModules(d.yang_lib)) :
                          LibModules(d.yang_lib)[j] = s[i].arg
              /\ \A i, j \in 3..k : i # j => s[i].arg # s[j].arg
              /\ \A i \in (k + 1)..n : s[i].op = "get-config"

\* C12: a session that is OPEN has sent its <hello>, one list-schemas get, one
\* get-schema per module it fetched and then get-config, in this order; and the
\* states are visited in the order CONNECTING, SCHEMA_LIST, SCHEMA_ONE (zero or
\* more times), DEVICE_SYNC, OPEN.
C12_SessionSequence ==
    /\ [](\A dh \in Handles :
             devs[dh].conn_state = "CS_OPEN" => OpenSent(devs[dh]))
    /\ [][\A dh \in Handles :
            \/ devs'[dh].conn_state = devs[dh].conn_state
            \/ devs'[dh].conn_state = "CS_CLOSED"
            \/ <<devs[dh].conn_state, devs'[dh].conn_state>> \in SessionOrder]_vars

\* C12 happens: an OPEN session that fetched a module on its way
C12_Witness ==
    \E dh \in Handles :
       /\ devs[dh].conn_state = "CS_OPEN"
       /\ Len(devs[dh].sent) = 4
       /\ devs[dh].sent[3].op = "get-schema"

\* the modules a catalog advertises in yang format with a NETCONF location
Advertised(catalog) ==
    {catalog[i].identifier :
        i \in {j \in 1..Len(catalog) : /\ catalog[j].format = "yang"
                                       /\ catalog[j].netconf}}

\* the modules for which a get-schema is among the requests q
Fetched(q) == {q[i].arg : i \in {j \in 1..Len(q) : q[j].op = "get-schema"}}

\* the event loop can deliver the complete frame with message m to dh
Deliverable(dh, m) ==
    /\ ~exited
    /\ devs[dh].fd_reg
    /\ netconf_input_frame(devs[dh].frame_buf, InFrame(m))

\* the world that device_input_cb leaves when that frame is delivered
Delivered(dh, m, env) == device_input_cb(World, dh, InFrame(m), env)

\* the requests that the callback that leaves w has sent on dh
NewRequests(w, dh) ==
    SubSeq(w.devs[dh].sent, Len(devs[dh].sent) + 1, Len(w.devs[dh].sent))

\* C13: when the catalog arrives (SCHEMA_LIST) or a module arrives (SCHEMA_ONE), a
\* get-schema is sent if and only if a module advertised in yang format with a
\* NETCONF location is neither loaded in the device's yspec nor in the schema
\* cache, and it asks for such a module; an entry without a NETCONF location is
\* skipped and does not close the session; no module is requested twice in a
\* session.
C13_GetSchemaIffMissing ==
    \A dh \in Handles :
       /\ devs[dh].conn_state = "CS_SCHEMA_LIST" =>
          \A env \in EnvsOf("CS_SCHEMA_LIST") :
          \A m \in {x \in ReplyMsgs(devs[dh]) : x.ns_ok /\ x.body = "schemas"} :
             Deliverable(dh, m) =>
                LET w == Delivered(dh, m, env)
                    wanted == {x \in Advertised(m.catalog) :
                                  /\ x \notin files
                                  /\ x \notin devs[dh].yspec.mods}
                    new == Fetched(NewRequests(w, dh))
                IN  /\ new \subseteq wanted
                    /\ Cardinality(new) <= 1
                    /\ new = {} <=> wanted = {}
                    /\ wanted # {} => w.devs[dh].conn_state = "CS_SCHEMA_ONE"
                    /\ w.devs[dh].conn_state = "CS_CLOSED" =>
                          w.devs[dh].logmsg = LogYangParse
       /\ devs[dh].conn_state = "CS_SCHEMA_ONE" =>
          \A env \in EnvsOf("CS_SCHEMA_ONE") :
          \A m \in {x \in ReplyMsgs(devs[dh]) : x.ns_ok /\ x.body = "text"} :
             Deliverable(dh, m) =>
                LET w == Delivered(dh, m, env)
                    lib == LibModules(devs[dh].yang_lib)
                    wanted == {x \in {lib[i] : i \in 1..Len(lib)} :
                                  /\ x \notin w.files
                                  /\ x \notin devs[dh].yspec.mods}
                    new == Fetched(NewRequests(w, dh))
                IN  /\ new \subseteq wanted
                    /\ Cardinality(new) <= 1
                    /\ new = {} <=> wanted = {}
                    /\ new \cap Fetched(devs[dh].sent) = {}
                    /\ wanted # {} => w.devs[dh].conn_state = "CS_SCHEMA_ONE"
       /\ \A i, j \in 1..Len(devs[dh].sent) :
             (/\ i # j
              /\ devs[dh].sent[i].op = "get-schema"
              /\ devs[dh].sent[j].op = "get-schema") =>
                 devs[dh].sent[i].arg # devs[dh].sent[j].arg

\* C13 happens: of two advertised modules the cached one was skipped and the
\* other one was requested
C13_Witness ==
    \E dh \in Handles :
       /\ devs[dh].conn_state = "CS_SCHEMA_ONE"
       /\ devs[dh].yang_lib = <<"ma", "mb">>
       /\ "ma" \in files
       /\ Fetched(devs[dh].sent) = {"mb"}

\* the reply body a state of the schema acquisition waits for
ExpectedBody(conn_state) ==
    IF conn_state = "CS_SCHEMA_LIST" THEN "schemas" ELSE "text"

\* the parser has rejected the modules of dh and nothing has happened to dh since
ParseFailed(dh) ==
    /\ devs[dh].conn_state = "CS_CLOSED"
    /\ devs[dh].logmsg = LogYangParse

\* C14: when the last module is there (nothing is left to fetch) and the YANG
\* parser rejects the modules, the device is CLOSED with the log message "YANG
\* parse error"; the session has sent no get-config, and until the device is
\* connected again no step sends a request to it or moves it to DEVICE_SYNC, OPEN
\* or a push state.
C14_ParseErrorCloses ==
    /\ [](\A dh \in Handles :
             devs[dh].conn_state \in {"CS_SCHEMA_LIST", "CS_SCHEMA_ONE"} =>
             \A m \in {x \in ReplyMsgs(devs[dh]) :
                          /\ x.ns_ok
                          /\ x.body = ExpectedBody(devs[dh].conn_state)} :
                LET w == Delivered(dh, m, [EnvOk EXCEPT !.parse_ok = FALSE])
                IN  (/\ Deliverable(dh, m)
                     /\ Fetched(NewRequests(w, dh)) = {}
                     /\ \/ devs[dh].conn_state = "CS_SCHEMA_ONE"
                        \/ Advertised(m.catalog) # {}) =>
                       /\ w.devs[dh].conn_state = "CS_CLOSED"
                       /\ w.devs[dh].logmsg = LogYangParse
                       /\ NewRequests(w, dh) = <<>>
                       /\ w.exited = exited)
    /\ [](\A dh \in Handles :
             ParseFailed(dh) =>
                \A i \in 1..Len(devs[dh].sent) : devs[dh].sent[i].op # "get-config")
    /\ [][\A dh \in Handles :
            ParseFailed(dh) =>
               \/ devs'[dh].conn_state = "CS_CLOSED" /\ devs'[dh].sent = devs[dh].sent
               \/ devs'[dh].conn_state = "CS_CONNECTING" /\ devs'[dh].sent = <<>>]_vars

\* C14 happens: a session that fetched a module was closed by the parser
C14_Witness ==
    \E dh \in Handles :
       /\ ParseFailed(dh)
       /\ Fetched(devs[dh].sent) # {}

\* C15: a device that is OPEN (its pull was bound and committed) has an empty log
\* message: no diagnostic of an earlier close (timeout, EOF, "Configured down") is
\* left in it.
C15_OpenHasNoLogmsg ==
    \A dh \in Handles :
       devs[dh].conn_state = "CS_OPEN" => devs[dh].logmsg = LogNull

\* C16: when xmldb_put or candidate_commit rejects the pulled configuration of a
\* device in DEVICE_SYNC, candidate is discarded (it equals running afterwards),
\* running keeps the value it had, sync_xml is unchanged, and the device is CLOSED
\* with the log message "Failed to commit".
C16_RejectedPullIsDiscarded ==
    [][\A dh \in Handles :
         (devs[dh].conn_state = "CS_DEVICE_SYNC" /\ devs'[dh] # devs[dh]) =>
         \A env \in {e \in Envs : ~(e.put_ok /\ e.commit_ok)} :
         \A m \in {x \in ReplyMsgs(devs[dh]) : x.ns_ok /\ x.body = "config"} :
            Handled(dh, m, env) =>
               /\ candidate' = running'
               /\ running' = running
               /\ devs'[dh].sync_xml = devs[dh].sync_xml
               /\ devs'[dh].conn_state = "CS_CLOSED"
               /\ devs'[dh].logmsg = LogCommitFailed]_vars

\* C16 happens: the pull of a device was rejected while running held another tree
\* than the pulled one
C16_Witness ==
    \E dh \in Handles :
       /\ devs[dh].conn_state = "CS_CLOSED"
       /\ devs[dh].logmsg = LogCommitFailed
       /\ running = "t0"
       /\ candidate = "t0"

\* C17: the sync_xml of a device changes only in the step that completes a pull
\* (DEVICE_SYNC to OPEN): connect, close, timeout, EOF, a pull that fails at
\* binding or at commit, and push leave it as it is.
C17_SyncXmlChangesOnlyAtPull ==
    [][\A dh \in Handles :
         devs'[dh].sync_xml # devs[dh].sync_xml =>
            /\ devs[dh].conn_state = "CS_DEVICE_SYNC"
            /\ devs'[dh].conn_state = "CS_OPEN"]_vars

\* C17 happens: a pull has failed at commit on a device whose earlier pull had
\* succeeded
C17_Witness ==
    \E dh \in Handles :
       /\ devs[dh].conn_state = "CS_CLOSED"
       /\ devs[dh].logmsg = LogCommitFailed
       /\ running = "t1"
       /\ devs[dh].sync_xml = "NULL"

\* the session of dh was ended by an end of file and dh was not connected since
EofClosed(dh) ==
    /\ devs[dh].conn_state = "CS_CLOSED"
    /\ devs[dh].logmsg = LogEof

\* C18: an end of file on the socket of a session closes the device with the log
\* message "Remote socket endpoint closed" (socket closed, no timeout left), and
\* nothing is retried: the device stays CLOSED, its socket closed and nothing
\* sent, until a connect or a reconnect that names it puts it in CONNECTING.
C18_EofClosesWithoutRetry ==
    /\ [][\A dh \in Handles :
            (devs[dh].conn_state # "CS_CLOSED" /\ InputEof(dh)) =>
               /\ EofClosed(dh)'
               /\ ~devs'[dh].socket
               /\ ~devs'[dh].fd_reg
               /\ devs'[dh].timers = 0]_vars
    /\ [][\A dh \in Handles :
            EofClosed(dh) =>
               \/ /\ devs'[dh].conn_state = "CS_CLOSED"
                  /\ ~devs'[dh].socket
                  /\ ~devs'[dh].fd_reg
                  /\ devs'[dh].timers = 0
                  /\ devs'[dh].sent = devs[dh].sent
               \/ /\ devs'[dh].conn_state = "CS_CONNECTING"
                  /\ \/ \E xn \in Entries :
                           xn.name = devs[dh].name /\ Connect(xn)
                     \/ \E cfg \in Configs :
                           /\ \E i \in 1..Len(cfg) : cfg[i].devname = devs[dh].name
                           /\ Reconnect(cfg)]_vars

\* C18 happens: a session that had sent a request was ended by an end of file
C18_Witness ==
    \E dh \in Handles :
       /\ EofClosed(dh)
       /\ Requests(devs[dh]) # <<>>

\* the messages that have the name a state expects, in the base namespace, and
\* are malformed for it: a <hello> without <capabilities>, a list-schemas reply
\* without data/netconf-state/schemas, a get-schema reply without a text body,
\* pulled data that does not bind
Malformed(d) ==
    CASE d.conn_state = "CS_CONNECTING" ->
            {x \in HelloMsgs : x.ns_ok /\ ~x.has_caps}
      [] d.conn_state = "CS_SCHEMA_LIST" ->
            {x \in ReplyMsgs(d) : x.ns_ok /\ x.body = "none"}
      [] d.conn_state = "CS_SCHEMA_ONE" ->
            {x \in ReplyMsgs(d) : x.ns_ok /\ x.body = "none"}
      [] d.conn_state = "CS_DEVICE_SYNC" ->
            {x \in ReplyMsgs(d) : x.ns_ok /\ x.body = "config_nobind"}
      [] OTHER -> {}

\* the reasons with which a malformed message closes the session
MalformedReasons ==
    {LogNoSchemas, LogNoYangBody, LogBindFailed}

\* C19: a message that is malformed for the state of the device (a <hello> without
\* <capabilities>, a list-schemas reply without schemas, a get-schema reply
\* without a body, pulled data that does not bind) leaves the device in CLOSED
\* with a log message that names the reason.
C19_MalformedCloses ==
    [][\A dh \in Handles :
         devs'[dh] # devs[dh] \/ exited' # exited =>
         \A m \in Malformed(devs[dh]) :
            Handled(dh, m, EnvOk) =>
               /\ devs'[dh].conn_state = "CS_CLOSED"
               /\ devs'[dh].logmsg # LogNull
               /\ devs[dh].conn_state # "CS_CONNECTING" =>
                     devs'[dh].logmsg \in MalformedReasons]_vars

\* the log messages with which an error closes a session that is in conn_state
CloseReasons(conn_state) ==
    {LogTimeout, LogEof, LogInvalidFrame, LogNamespace, LogNoBase,
     LogNoSchemaMethod, LogNoSchemas, LogNoYangBody, LogYangParse, LogNoYangs,
     LogBindFailed, LogCommitFailed}
    \cup {LogUnexpected(n, conn_state) : n \in {"hello", "rpc-reply", "notification"}}

\* C20: every step that takes a device from another state to CLOSED leaves a
\* log message that is not empty and names the cause: the timeout, the end of
\* file, the invalid frame, or the reason for which the handler closed.
C20_CloseLeavesLogmsg ==
    [][\A dh \in Handles :
         (devs[dh].conn_state # "CS_CLOSED" /\ devs'[dh].conn_state = "CS_CLOSED") =>
            /\ devs'[dh].logmsg # LogNull
            /\ devs'[dh].logmsg \in CloseReasons(devs[dh].conn_state)
            /\ Timeout(dh) => devs'[dh].logmsg = LogTimeout
            /\ InputEof(dh) => devs'[dh].logmsg = LogEof
            /\ InputGarbage(dh) => devs'[dh].logmsg = LogInvalidFrame]_vars

\* C20 happens: a frame that is not well-formed has closed a session
C20_Witness ==
    \E dh \in Handles :
       /\ devs[dh].conn_state = "CS_CLOSED"
       /\ devs[dh].logmsg = LogInvalidFrame
       /\ devs[dh].sent # <<>>

\* <rpc-reply><ok/></rpc-reply> in the base namespace
OkReplies(d) == {x \in ReplyMsgs(d) : x.ns_ok /\ x.body = "none"}

\* C21: a device in PUSH_EDIT that receives an rpc-reply with <ok/> moves to
\* PUSH_VALIDATE or back to OPEN; that reply does not close it.
C21_PushEditOkReply ==
    \A dh \in Handles :
       devs[dh].conn_state = "CS_PUSH_EDIT" =>
          \A m \in OkReplies(devs[dh]) :
             Deliverable(dh, m) =>
                Delivered(dh, m, EnvOk).devs[dh].conn_state
                   \in {"CS_PUSH_VALIDATE", "CS_OPEN"}

\* C22: a push on an OPEN device sends an edit-config, registers a timeout and
\* enters PUSH_EDIT if and only if the handle's synced tree and the device's root
\* in running differ; when they are equal nothing is sent, no timeout is
\* registered and the device stays OPEN.
C22_PushIffDiff ==
    \A dh \in Handles :
       (devs[dh].conn_state = "CS_OPEN" /\ ~exited) =>
          LET d1 == push_device(World, dh).w.devs[dh]
              new == SubSeq(d1.sent, Len(devs[dh].sent) + 1, Len(d1.sent))
          IN  IF xml_diff(devs[dh].sync_xml, running)
              THEN /\ Len(new) = 1
                   /\ new[1].op = "edit-config"
                   /\ d1.conn_state = "CS_PUSH_EDIT"
                   /\ d1.timers = devs[dh].timers + 1
              ELSE /\ new = <<>>
                   /\ d1.conn_state = "CS_OPEN"
                   /\ d1.timers = devs[dh].timers

\* C23: a sync-pull or sync-push whose devname pattern does not match the name of
\* a device sends nothing to that device and leaves its state as it is.
C23_PatternSelects ==
    \A dh \in Handles : \A xe \in SyncRequests : \A cfg \in Configs :
       \A push \in BOOLEAN :
          (/\ ~exited
           /\ devs[dh].alloc
           /\ ~fnmatch(xe.devname, devs[dh].name)) =>
             rpc_sync(World, xe, cfg, push).w.devs[dh] = devs[dh]

\* C24: in a sync-pull or sync-push over several devices every selected OPEN
\* device is pulled or pushed, also when the pull or the push of another selected
\* device fails (a push that is refused because that device has no synced tree).
C24_FailureDoesNotCancel ==
    \A xe \in SyncRequests : \A push \in BOOLEAN :
       ~exited =>
          LET w == rpc_sync(World, xe, MultiConfig, push).w
          IN  \A dh \in Handles :
                 (/\ devs[dh].alloc
                  /\ devs[dh].conn_state = "CS_OPEN"
                  /\ devs[dh].socket) =>
                    IF push
                    THEN w.devs[dh] = push_device(World, dh).w.devs[dh]
                    ELSE w.devs[dh] = pull_device(World, dh).w.devs[dh]

\* C25: a transaction-error request cancels what is running: every device that is
\* in a transient state when the request is handled has its session closed with
\* the reason of the request, "Aborted by user".
C25_TransactionErrorCancels ==
    \A xe \in TransactionErrors :
       ~exited =>
          LET w == rpc_transaction_error(World, xe).w
          IN  \A dh \in Handles :
                 (devs[dh].alloc /\ Transient(dh)) =>
                    /\ w.devs[dh].conn_state = "CS_CLOSED"
                    /\ w.devs[dh].logmsg = xe.reason

\* C26: a pull that was started produces exactly one terminal controller-transaction
\* notification: when sync-pull has put an OPEN device in DEVICE_SYNC and the
\* reply of the device ends the pull (the device is OPEN again, or CLOSED), one
\* notification has been sent since the request.
C26_OneTerminalNotification ==
    \A xe \in SyncRequests : \A cfg \in Configs :
       ~exited =>
          LET w1 == rpc_sync(World, xe, cfg, FALSE).w
          IN  \A dh \in Handles :
                 (/\ devs[dh].conn_state = "CS_OPEN"
                  /\ w1.devs[dh].conn_state = "CS_DEVICE_SYNC"
                  /\ IdsInBound(w1)) =>
                    \A m \in ReplyMsgs(w1.devs[dh]) :
                    \A env \in EnvsOf("CS_DEVICE_SYNC") :
                       netconf_input_frame(w1.devs[dh].frame_buf, InFrame(m)) =>
                          LET w2 == device_input_cb(w1, dh, InFrame(m), env)
                          IN  w2.devs[dh].conn_state \in {"CS_OPEN", "CS_CLOSED"} =>
                                 Len(w2.notifications) = Len(notifications) + 1

Range(seq) == {seq[i] : i \in DOMAIN seq}

\* C27: whatever outcomes the devices of a transaction report, in whatever order,
\* the result is TR_ERROR iff some outcome is TR_ERROR, otherwise TR_FAILED iff
\* some outcome is TR_FAILED, otherwise TR_SUCCESS.
C27_Aggregation ==
    \A tid \in DOMAIN transactions :
       LET ct == transactions[tid]
           reported == Range(ct.ct_reports)
       IN  ct.ct_reports # <<>> =>
              /\ ct.ct_result = "TR_ERROR" <=> "TR_ERROR" \in reported
              /\ ct.ct_result = "TR_FAILED" <=>
                    ("TR_ERROR" \notin reported /\ "TR_FAILED" \in reported)
              /\ ct.ct_result = "TR_SUCCESS" <=> reported = {"TR_SUCCESS"}

\* C27 happens: a failure was reported before an error and a success after it
C27_Witness ==
    \E tid \in DOMAIN transactions :
       transactions[tid].ct_reports = <<"TR_FAILED", "TR_ERROR", "TR_SUCCESS">>

\* C28: every transaction-new replies an id that is not zero and is greater than
\* the id of every transaction created before; the ids of the transactions are
\* strictly increasing.
C28_TidFresh ==
    /\ \A i, j \in DOMAIN transactions :
          i < j => transactions[i].ct_id < transactions[j].ct_id
    /\ \A xe \in TransactionNews :
          (~exited /\ Len(transactions) < MaxTid) =>
             LET r == rpc_transaction_new(World, xe)
             IN  /\ r.id # 0
                 /\ \A i \in DOMAIN transactions : transactions[i].ct_id < r.id
                 /\ r.w.transactions[Len(r.w.transactions)].ct_id = r.id

\* C28 happens: two transactions exist and a third is created
C28_Witness ==
    /\ Len(transactions) = 2
    /\ ~exited

\* C29: a pull requested with transient=true leaves the datastores and the synced
\* tree of the device as they were before the request: when the reply of the
\* device has been handled, running and candidate hold what they held and
\* sync_xml is unchanged.
C29_TransientPullDiscards ==
    \A xe \in {x \in SyncRequests : x.transient = "true"} : \A cfg \in Configs :
       ~exited =>
          LET w1 == rpc_sync(World, xe, cfg, FALSE).w
          IN  \A dh \in Handles :
                 (/\ devs[dh].conn_state = "CS_OPEN"
                  /\ w1.devs[dh].conn_state = "CS_DEVICE_SYNC"
                  /\ IdsInBound(w1)) =>
                    \A m \in ReplyMsgs(w1.devs[dh]) :
                    \A env \in EnvsOf("CS_DEVICE_SYNC") :
                       netconf_input_frame(w1.devs[dh].frame_buf, InFrame(m)) =>
                          LET w2 == device_input_cb(w1, dh, InFrame(m), env)
                          IN  /\ w2.running = running
                              /\ w2.candidate = candidate
                              /\ w2.devs[dh].sync_xml = devs[dh].sync_xml

\* the device is connected: transport open, a timeout and the input callback
\* registered, state CONNECTING
Connected(d) ==
    /\ d.socket
    /\ d.timers > 0
    /\ d.fd_reg
    /\ d.conn_state = "CS_CONNECTING"

\* the handles that are not CLOSED are in w what they are now
OthersUntouched(w) ==
    \A dh \in Handles :
       (devs[dh].alloc /\ devs[dh].conn_state # "CS_CLOSED") => w.devs[dh] = devs[dh]

\* the entry asks for a connection over NETCONF/SSH
Connectable(xn) == xn.enabled = "true" /\ xn.ssh

C31_SyncOnlyOpen ==
    \A xe \in SyncRequests : \A cfg \in Configs : \A push \in BOOLEAN :
       ~exited =>
          LET w == rpc_sync(World, xe, cfg, push).w
          IN  \A dh \in Handles :
                 (devs[dh].alloc /\ devs[dh].conn_state # "CS_OPEN") =>
                    w.devs[dh] = devs[dh]

\* C31 happens: a device that was pulled from OPEN is still waiting for the reply
\* (a second request finds it in DEVICE_SYNC)
C31_Witness ==
    \E dh \in Handles :
       /\ ~exited
       /\ devs[dh].conn_state = "CS_DEVICE_SYNC"
       /\ Len(SelectSeq(devs[dh].sent, LAMBDA r : r.op = "get-config")) = 2

\* the get-schema requests sent in the session of d
GetSchemas(d) == SelectSeq(d.sent, LAMBDA r : r.op = "get-schema")

\* C32: schema acquisition terminates.  While a device is in SCHEMA_ONE the number
\* of get-schema requests of its session is at most its schema index, which is at
\* most the number N of modules of its list; and a message handled in SCHEMA_ONE
\* either takes the device out of SCHEMA_ONE or sends exactly one more get-schema
\* and leaves the index strictly greater.
C32_SchemaAcquisitionTerminates ==
    \A dh \in Handles :
       devs[dh].conn_state = "CS_SCHEMA_ONE" =>
          /\ Len(GetSchemas(devs[dh])) <= devs[dh].nr_schemas
          /\ devs[dh].nr_schemas <= Len(LibModules(devs[dh].yang_lib))
          /\ \A m \in Msgs(devs[dh]) :
             \A env \in EnvsOf("CS_SCHEMA_ONE") :
                Deliverable(dh, m) =>
                   LET d == Delivered(dh, m, env).devs[dh]
                   IN  d.conn_state = "CS_SCHEMA_ONE" =>
                          /\ d.nr_schemas > devs[dh].nr_schemas
                          /\ Len(GetSchemas(d)) = Len(GetSchemas(devs[dh])) + 1

\* C32 happens: the second module of a list of two has been requested
C32_Witness ==
    \E dh \in Handles :
       /\ devs[dh].conn_state = "CS_SCHEMA_ONE"
       /\ Len(GetSchemas(devs[dh])) = 2
       /\ devs[dh].nr_schemas = 2

\* the world in which nothing of a frame has been read yet on dh
Unsliced(dh) == SetDev(World, dh, [devs[dh] EXCEPT !.frame_buf = <<>>])

\* C33: frame reassembly.  Whatever slices of a frame the earlier reads of a
\* device have saved, the read that brings the last slice of a well-formed frame
\* has the effect of the read that brings the whole frame at once (the handler
\* runs once, on the same message); and a read that does not complete a frame
\* changes nothing of the device but its frame buffer.
C33_FrameReassembly ==
    \A dh \in Handles :
       (~exited /\ devs[dh].fd_reg) =>
          /\ \A m \in Msgs(devs[dh]) :
             \A env \in EnvsOf(devs[dh].conn_state) :
                device_input_cb(World, dh, InFrame(m), env)
                   = device_input_cb(Unsliced(dh), dh, InFrame(m), env)
          /\ LET w == device_input_cb(World, dh, InPartial, EnvOk)
             IN  w = SetDev(World, dh,
                            [devs[dh] EXCEPT !.frame_buf = w.devs[dh].frame_buf])

\* the frames that a read can complete on d
Frames(d) == {InGarbage} \cup {InFrame(m) : m \in Msgs(d) \cup {NoElement}}

\* C34: a completed frame that does not parse ends the session: the device is
\* CLOSED with the log message "Invalid frame", its frame buffer is empty, and the
\* state handler has not run (nothing is sent, no request is answered, no other
\* field but those of the close changes, the event loop goes on).
C34_InvalidFrameCloses ==
    \A dh \in Handles :
       (~exited /\ devs[dh].fd_reg) =>
          \A in \in {f \in Frames(devs[dh]) :
                        ~netconf_input_frame(devs[dh].frame_buf, f)} :
             LET w == device_input_cb(World, dh, in, EnvOk)
             IN  /\ w.devs[dh].conn_state = "CS_CLOSED"
                 /\ w.devs[dh].logmsg = LogInvalidFrame
                 /\ w.devs[dh].frame_buf = <<>>
                 /\ w = device_close_connection(Unsliced(dh), dh, LogInvalidFrame)

\* C34 happens: a session was closed for an invalid frame after requests had been
\* sent in it
C34_Witness ==
    \E dh \in Handles :
       /\ devs[dh].conn_state = "CS_CLOSED"
       /\ devs[dh].logmsg = LogInvalidFrame
       /\ devs[dh].sent # <<>>

\* the worlds that differ from the present one in what a push of dh reads: the
\* synced tree and the yspec of the handle, and the device's root in running
PushWorlds(dh) ==
    {[World EXCEPT !.devs[dh].sync_xml = x0, !.devs[dh].yspec = ys, !.running = x1] :
        x0 \in Roots, x1 \in Roots, ys \in {devs[dh].yspec, YspecNull}}

\* C35: a push of an OPEN device that has no synced tree, no root in running or
\* no yspec is refused with the operation-failed reply of the first of these
\* that is missing, and changes nothing: no request is sent, no timeout is
\* registered, the device stays OPEN.
C35_PushRefused ==
    \A dh \in Handles :
       (~exited /\ devs[dh].alloc /\ devs[dh].conn_state = "CS_OPEN") =>
          \A w \in PushWorlds(dh) :
             (\/ w.devs[dh].sync_xml = "NULL"
              \/ w.running = "NULL"
              \/ w.devs[dh].yspec.st = "NULL") =>
                /\ push_device(w, dh) = R(w, 0)
                /\ push_device_reply(w, dh) =
                      IF w.devs[dh].sync_xml = "NULL" THEN "No synced device tree"
                      ELSE IF w.running = "NULL" THEN "Device not configured"
                      ELSE "No YANGs in device"

\* C35 happens: an OPEN device without a synced tree, which a sync-push finds
C35_Witness ==
    \E dh \in Handles :
       /\ ~exited
       /\ devs[dh].conn_state = "CS_OPEN"
       /\ devs[dh].sync_xml = "NULL"
       /\ rpc_sync(World, [devname |-> "*", transient |-> "NULL"],
                   <<[name |-> "d1", devname |-> "d1", enabled |-> "true",
                      ssh |-> TRUE]>>, TRUE) = R(World, 0)

\* the requests of one kind among those the CLI has sent
RpcsOf(c, op) == SelectSeq(c.rpcs, LAMBDA r : r.op = op)

\* C36: when the poll receives the notification of the tid it waits for, the
\* result that the command reads afterwards is the result of that notification,
\* whatever was received before, and "OK" is written only when it is SUCCESS.
C36_PollHandsOwnResult ==
    \A ev \in CliEvents, env \in CliEnvs :
       (cli.pc = "poll" /\ ev.kind = "notification" /\ ev.tid = cli.tidstr) =>
          LET poll == transaction_notification_poll(cli, ev, env)
              c == cli_receive(cli, ev, env)
          IN  /\ ~poll.loop
              /\ poll.w.result = ev.result
              /\ "OK" \in Range(c.out) => ev.result = "TR_SUCCESS"

\* C37: while a command polls, an interrupted receive sends exactly one
\* transaction-error for the tid, with origin CLI and reason "Aborted by user",
\* and ends the poll; a notification of another tid leaves the command polling
\* and sends nothing; at the end of the stream nothing is sent and the poll fails.
C37_InterruptAborts ==
    \A ev \in CliEvents, env \in CliEnvs :
       cli.pc = "poll" =>
          LET poll == transaction_notification_poll(cli, ev, env)
          IN  /\ ev.kind = "intr" =>
                    /\ ~poll.loop
                    /\ poll.w.rpcs = Append(cli.rpcs,
                           [op |-> "transaction-error", tid |-> cli.tidstr,
                            origin |-> "CLI", reason |-> "Aborted by user"])
                    /\ cli_receive(cli, ev, env).pc = "idle"
              /\ (ev.kind = "notification" /\ ev.tid # cli.tidstr) =>
                    /\ poll.loop
                    /\ poll.w.rpcs = cli.rpcs
                    /\ cli_receive(cli, ev, env).pc = "poll"
              /\ ev.kind = "eof" =>
                    /\ ~poll.loop
                    /\ poll.ret = -1
                    /\ poll.w.rpcs = cli.rpcs
                    /\ cli_receive(cli, ev, env).retval = -1

\* C37 happens: a command was interrupted while it polled and has sent its
\* transaction-error
C37_Witness ==
    /\ cli.pc = "idle"
    /\ cli.tidstr # 0
    /\ Len(RpcsOf(cli, "transaction-error")) = 1
    /\ "Aborted by user" \in Range(cli.out)

\* C38: a comparison with the transient config sends no datastore-diff and
\* returns an error when the transaction of its pull ends FAILED or ERROR or
\* when the wait is interrupted by the user.
C38_DiffOnlyAfterSuccess ==
    \A ev \in CliEvents, env \in CliEnvs :
       (/\ cli.pc = "poll"
        /\ cli.cmd = "compare-transient"
        /\ \/ ev.kind = "intr"
           \/ ev.kind = "notification" /\ ev.tid = cli.tidstr
                                       /\ ev.result # "TR_SUCCESS") =>
          LET c == cli_receive(cli, ev, env)
          IN  /\ Len(RpcsOf(c, "datastore-diff")) = 0
              /\ c.retval = -1

\* C39: no two device handles have the same name.
C39_HandleNamesUnique ==
    \A dh1, dh2 \in Handles :
       (devs[dh1].alloc /\ devs[dh2].alloc /\ devs[dh1].name = devs[dh2].name)
          => dh1 = dh2

\* what C40 names of a device
IsolatedFields(d) == <<d.conn_state, d.timers, d.frame_buf, d.msg_id, d.sync_xml>>

\* the event for dh that leaves w has changed neither the framing mode nor
\* another device
Isolated(w, dh) ==
    /\ w.framing = netconf_framing
    /\ \A o \in Handles \ {dh} : IsolatedFields(w.devs[o]) = IsolatedFields(devs[o])

\* a frame, an end of file, a timeout or a connect for dh changes no other device
IsolatedEvents(dh) ==
    /\ devs[dh].fd_reg =>
          /\ Isolated(device_input_cb(World, dh, InEof, EnvOk), dh)
          /\ \A in \in Frames(devs[dh]), env \in EnvsOf(devs[dh].conn_state) :
                Isolated(device_input_cb(World, dh, in, env), dh)
    /\ devs[dh].timers > 0 => Isolated(device_state_timeout(World, dh), dh)
    /\ \A xn \in Entries :
          (xn.name = devs[dh].name /\ (NeedsHandle(World, xn) => NextFree(World) # 0))
             => Isolated(controller_connect(World, xn).w, dh)

\* C40: a frame, an end of file, a timeout, a connect, a pull or a push for one
\* device leaves the conn_state, timer, framing mode, frame buffer, message-id
\* counter and synced tree of every other device unchanged.
C40_DevicesIsolated ==
    \A dh \in Handles :
       (~exited /\ devs[dh].alloc) =>
          /\ IsolatedEvents(dh)
          /\ \A xe \in SyncRequests, push \in BOOLEAN :
                xe.devname = devs[dh].name =>
                   Isolated(rpc_sync(World, xe, MultiConfig, push).w, dh)

====
